---- MODULE Spec2Model ----
(***************************************************************************)
(* Model of the near-private-data messenger: pair channels (X25519 key     *)
(* agreement, sequence hashes, ChaCha20-Poly1305 under a counter nonce),   *)
(* the per-direction message streams of a conversation, the combined       *)
(* (multiplexed) stream, and the message-repository contract.              *)
(*                                                                         *)
(* Cryptography is modelled symbolically: SHA-256 is an injective wrapper  *)
(* of its input, an AEAD ciphertext carries the key and nonce it was       *)
(* sealed under, and the Diffie-Hellman exchange is exponentiation in a    *)
(* small prime field.                                                      *)
(***************************************************************************)
EXTENDS Integers, Sequences, FiniteSets, TLC

(***************************************************************************)
(* Bounds of the model.                                                    *)
(***************************************************************************)
\* secrets range over 1..MaxSecret
MaxSecret == 3
\* sequence numbers explored by the channel specification
MaxSeq == 2
\* the stream counters stop advancing at MaxNonce
MaxNonce == 0
\* the block timestamp stops advancing at MaxTime
MaxTime == 1
\* messages stored per stream in the initial states of SpecMux
MaxStored == 2

(***************************************************************************)
(* Key agreement (x25519_dalek), as exponentiation modulo DhPrime.         *)
(***************************************************************************)
DhPrime == 11
DhBase == 2

RECURSIVE ModPow(_, _, _)
ModPow(b, e, m) == IF e = 0 THEN 1 % m ELSE (b * ModPow(b, e - 1, m)) % m

\* x25519_dalek::PublicKey::from(&StaticSecret)
PublicKeyFrom(secret) == ModPow(DhBase, secret, DhPrime)

\* mutant: an exchange in which the two sides do not arrive at the same secret
diffie_hellman_one_sided(secret, public_key) == (secret + public_key) % DhPrime

\* StaticSecret::diffie_hellman(&PublicKey).to_bytes()
diffie_hellman(secret, public_key) == ModPow(public_key, secret, DhPrime)

Secrets == 1..MaxSecret
\* every 32-byte value is accepted as a public key
PublicKeys == 0..(DhPrime - 1)

(***************************************************************************)
(* Channels.                                                               *)
(***************************************************************************)
\* u32::to_le_bytes
to_le_bytes(u) ==
    << u % 256, (u \div 256) % 256, (u \div 65536) % 256, (u \div 16777216) % 256 >>

\* the 12-byte AEAD nonce: the counter, little endian, then 8 zero bytes
u32_to_nonce(u) == to_le_bytes(u) \o << 0, 0, 0, 0 >> \o << 0, 0, 0, 0 >>

\* SHA-256: injective and opaque
Sha256(input) == [digest |-> input]

\* mutant: the identifier lists the two keys in sorted order, whatever the direction
PairChannelNewSorted(sender_id, receiver_id, shared_secret) ==
    [ sender_id     |-> sender_id,
      receiver_id   |-> receiver_id,
      shared_secret |-> shared_secret,
      identifier    |-> << IF sender_id < receiver_id THEN sender_id ELSE receiver_id,
                           IF sender_id < receiver_id THEN receiver_id ELSE sender_id,
                           shared_secret, 0, 0, 0, 0, 0 >> ]

\* PairChannel::new: the 256-byte identifier as eight 32-byte words
PairChannelNew(sender_id, receiver_id, shared_secret) ==
    [ sender_id     |-> sender_id,
      receiver_id   |-> receiver_id,
      shared_secret |-> shared_secret,
      identifier    |-> << sender_id, receiver_id, shared_secret, 0, 0, 0, 0, 0 >> ]

\* mutant: the receive channel is built with the roles of the send channel
pair_unswapped(sender_secret, receiver_public_key) ==
    LET shared_secret == diffie_hellman(sender_secret, receiver_public_key)
        sender_public_key == PublicKeyFrom(sender_secret)
    IN  [ send |-> PairChannelNew(sender_public_key, receiver_public_key, shared_secret),
          recv |-> PairChannelNew(sender_public_key, receiver_public_key, shared_secret) ]

\* PairChannel::pair: (send_channel, receive_channel)
pair(sender_secret, receiver_public_key) ==
    LET shared_secret == diffie_hellman(sender_secret, receiver_public_key)
        sender_public_key == PublicKeyFrom(sender_secret)
    IN  [ send |-> PairChannelNew(sender_public_key, receiver_public_key, shared_secret),
          recv |-> PairChannelNew(receiver_public_key, sender_public_key, shared_secret) ]

\* SequenceHashProducer::sequence_hash
sequence_hash(channel, sequence_number) ==
    Sha256(to_le_bytes(sequence_number) \o channel.identifier)

\* the Poly1305 tag of a ciphertext body
Poly1305(key, nonce, text) == << key, nonce, text >>

\* Channel::encrypt
encrypt(channel, nonce, message) ==
    LET n == u32_to_nonce(nonce)
    IN  [ key   |-> channel.shared_secret,
          nonce |-> n,
          text  |-> message,
          tag   |-> Poly1305(channel.shared_secret, n, message) ]

\* Channel::decrypt: Ok(cleartext), or Err when the tag does not verify
decrypt(channel, nonce, ciphertext) ==
    LET n == u32_to_nonce(nonce)
    IN  IF /\ ciphertext.key = channel.shared_secret
           /\ ciphertext.nonce = n
           /\ ciphertext.tag = Poly1305(channel.shared_secret, n, ciphertext.text)
        THEN [ok |-> TRUE, cleartext |-> ciphertext.text]
        ELSE [ok |-> FALSE, cleartext |-> ""]

Cleartexts == {"dm 1", "dm 2"}

\* a stored ciphertext with its text altered after sealing
Tamper(ciphertext) ==
    [ciphertext EXCEPT !.text = IF ciphertext.text = "dm 1" THEN "dm 2" ELSE "dm 1"]

(***************************************************************************)
(* State.                                                                  *)
(***************************************************************************)
VARIABLES
    \* the message-repository contract and the chain it runs on
    messages,               \* LookupMap<Vec<u8>, Message>, as a set of entries
    current_aggregator,     \* the hashes added to the current cuckoo filter
    aggregator_history,     \* Vector<AggregatorRecord>
    block_timestamp_ms,     \* env::block_timestamp_ms()
    \* the two messengers
    conversations,          \* party -> whether the conversation with the peer exists
    next_nonce,             \* party -> stream index -> the stream's counter
    next_message,           \* party -> stream index -> the lookahead of the combined stream
    \* observation of the run
    watch,                  \* what this run records below; fixed by Init
    last,                   \* the operation that has just returned, with its result
    sealed,                 \* every (channel, seq, cleartext) passed to encrypt so far
    published,              \* the first successful publish to each sequence hash
    emitted,                \* party -> the messages its combined stream has returned
    \* the key registry contract and the directory of each messenger
    key_map,                \* LookupMap<AccountId, Base64VecU8>: account -> Option of its value
    correspondent_map,      \* party -> the CorrespondentIds its directory maps to an account
    \* tasks that run concurrently with each other
    tasks,                  \* task -> the call it executes, its position and its locals
    lock,                   \* stream index -> the task that holds the counter mutex, or Free
    monitor                 \* the polling task of monitor_conversation and its channel

vars == << messages, current_aggregator, aggregator_history, block_timestamp_ms,
           conversations, next_nonce, next_message, watch, last, sealed, published,
           emitted, key_map, correspondent_map, tasks, lock, monitor >>

\* what the operations of a conversation leave as it is
rest_vars == << watch, key_map, tasks, lock, monitor >>

repo_vars == << messages, current_aggregator, aggregator_history >>

Parties == {"alice", "bob"}
\* the parties that run a combined stream over their conversation
Pollers == {"alice"}
Peer(p) == IF p = "alice" THEN "bob" ELSE "alice"

\* messenger_secret_key of each party
SecretOf(p) == IF p = "alice" THEN 1 ELSE 2

\* the streams of a conversation, in the order the combined stream holds them:
\* [&conversation.send, &conversation.recv]
StreamIndexes == {0, 1}
NumStreams == Cardinality(StreamIndexes)

\* Messenger::register_correspondent: the channels of each party's conversation
\* with its peer
ConversationChannels ==
    [p \in Parties |-> pair(SecretOf(p), PublicKeyFrom(SecretOf(Peer(p))))]

StreamChannel(p, i) ==
    IF i = 0 THEN ConversationChannels[p].send ELSE ConversationChannels[p].recv

\* MessageStream.sender / the correspondent a stream reports
\* mutant: every stream is attributed to the local party
StreamSenderLocal(p, i) == p

StreamSender(p, i) == IF i = 0 THEN p ELSE Peer(p)

\* Option<T> as a sequence of length at most one
None == << >>
Some(x) == << x >>
IsSome(o) == Len(o) = 1
Unwrap(o) == o[1]

(***************************************************************************)
(* The message-repository contract.                                        *)
(***************************************************************************)
AGGREGATOR_CAPACITY == 1023

contains_key(msgs, h) == \E e \in msgs : e.hash = h

\* MessageRepository::get_message
get_message(msgs, h) ==
    IF contains_key(msgs, h)
    THEN LET e == CHOOSE e \in msgs : e.hash = h
         IN  Some([message |-> e.message, block_timestamp_ms |-> e.block_timestamp_ms])
    ELSE None

\* mutant: a full aggregator is replaced by a fresh one without being archived
add_to_current_aggregator_dropping(cur, hist, now, h) ==
    IF Len(cur) >= AGGREGATOR_CAPACITY
    THEN [ current |-> << h >>, history |-> hist ]
    ELSE [ current |-> Append(cur, h), history |-> hist ]

\* MessageRepository::add_to_current_aggregator
add_to_current_aggregator(cur, hist, now, h) ==
    IF Len(cur) >= AGGREGATOR_CAPACITY
    THEN [ current |-> << h >>,
           history |-> Append(hist, [end_block_timestamp_ms |-> now, aggregator |-> cur]) ]
    ELSE [ current |-> Append(cur, h), history |-> hist ]

\* mutant: publish without the check that the slot is free
publish_overwriting(msgs, cur, hist, now, h, message, funded) ==
    IF ~funded
    THEN [ committed |-> FALSE, messages |-> msgs, current |-> cur, history |-> hist ]
    ELSE LET agg == add_to_current_aggregator(cur, hist, now, h)
         IN  [ committed |-> TRUE,
               messages  |-> {e \in msgs : e.hash # h}
                                \cup {[ hash |-> h, message |-> message,
                                        block_timestamp_ms |-> now ]},
               current   |-> agg.current,
               history   |-> agg.history ]

\* MessageRepository::publish as a transaction: the state it leaves, and whether
\* it committed.  A panic (occupied slot, deposit below the storage fee) reverts
\* every change of the call.
publish(msgs, cur, hist, now, h, message, funded) ==
    IF contains_key(msgs, h) \/ ~funded
    THEN [ committed |-> FALSE, messages |-> msgs, current |-> cur, history |-> hist ]
    ELSE LET agg == add_to_current_aggregator(cur, hist, now, h)
         IN  [ committed |-> TRUE,
               messages  |-> msgs \cup {[ hash |-> h, message |-> message,
                                          block_timestamp_ms |-> now ]},
               current   |-> agg.current,
               history   |-> agg.history ]

(***************************************************************************)
(* The key registry contract and its client.                               *)
(***************************************************************************)
\* the bytes an account stores: their length, and the public key they spell.
\* The 32-byte value of an account is the public key of its messenger.
KeyOf(p) == [len |-> 32, key |-> PublicKeyFrom(SecretOf(p))]
ShortKeyOf(p) == [len |-> 31, key |-> PublicKeyFrom(SecretOf(p))]
KeyValues(p) == {None, Some(KeyOf(p)), Some(ShortKeyOf(p))}

\* the deposit attached to a call: nothing, less than the storage fee of a new
\* entry, or more than it (sync_key attaches ONE_NEAR / 2)
Deposits == {"zero", "short", "ample"}

\* Base64VecU8 on the wire, and BASE64.decode
Base64Encode(bytes) == [base64 |-> bytes]
Base64Decode(string) ==
    IF DOMAIN string = {"base64"}
    THEN [ok |-> TRUE, bytes |-> string.base64]
    ELSE [ok |-> FALSE, bytes |-> << >>]

\* PublicKeyManagerContract::get_public_key
get_public_key(km, account_id) == km[account_id]

\* mutant: the key is stored under every account
set_public_key_for_all(km, predecessor, public_key, deposit) ==
    LET grows == IsSome(public_key)
                    /\ (~IsSome(km[predecessor])
                           \/ Unwrap(public_key).len > Unwrap(km[predecessor]).len)
    IN  IF deposit = "zero" \/ (deposit = "short" /\ grows)
        THEN [committed |-> FALSE, key_map |-> km]
        ELSE [committed |-> TRUE, key_map |-> [a \in DOMAIN km |-> public_key]]

\* PublicKeyManagerContract::set_public_key as a transaction of `predecessor`:
\* the map it leaves and whether it committed.  It panics without a deposit,
\* and when the deposit does not cover the storage the call added.
set_public_key(km, predecessor, public_key, deposit) ==
    LET grows == IsSome(public_key)
                    /\ (~IsSome(km[predecessor])
                           \/ Unwrap(public_key).len > Unwrap(km[predecessor]).len)
    IN  IF deposit = "zero" \/ (deposit = "short" /\ grows)
        THEN [committed |-> FALSE, key_map |-> km]
        ELSE IF IsSome(public_key)
        THEN [committed |-> TRUE, key_map |-> [km EXCEPT ![predecessor] = public_key]]
        ELSE [committed |-> TRUE, key_map |-> [km EXCEPT ![predecessor] = None]]

\* mutant: an account without a key reads as an empty key
get_key_for_defaulting(km, account_id, rpc_ok) ==
    IF ~rpc_ok
    THEN [ok |-> FALSE, error |-> "rpc", bytes |-> << >>]
    ELSE IF ~IsSome(get_public_key(km, account_id))
    THEN [ok |-> TRUE, error |-> "", bytes |-> KeyOf(account_id)]
    ELSE LET decoded == Base64Decode(Base64Encode(Unwrap(get_public_key(km, account_id))))
         IN  IF decoded.ok
             THEN [ok |-> TRUE, error |-> "", bytes |-> decoded.bytes]
             ELSE [ok |-> FALSE, error |-> "base64", bytes |-> << >>]

\* KeyRegistry::get_key_for: the view call, whose JSON result must be a string
\* (null is not one), then the base64 decoding
get_key_for(km, account_id, rpc_ok) ==
    IF ~rpc_ok
    THEN [ok |-> FALSE, error |-> "rpc", bytes |-> << >>]
    ELSE IF ~IsSome(get_public_key(km, account_id))
    THEN [ok |-> FALSE, error |-> "json", bytes |-> << >>]
    ELSE LET decoded == Base64Decode(Base64Encode(Unwrap(get_public_key(km, account_id))))
         IN  IF decoded.ok
             THEN [ok |-> TRUE, error |-> "", bytes |-> decoded.bytes]
             ELSE [ok |-> FALSE, error |-> "base64", bytes |-> << >>]

\* the registry after both parties have synchronised their key
SyncedKeys == [p \in Parties |-> Some(KeyOf(p))]
NoKeys == [p \in Parties |-> None]

(***************************************************************************)
(* Streams.                                                                *)
(***************************************************************************)
\* MessageStream::get_next_nonce
get_next_nonce(nn, i) == nn[i]

\* MessageStream::get_next_sequence_hash
get_next_sequence_hash(p, i, nn) == sequence_hash(StreamChannel(p, i), get_next_nonce(nn, i))

\* mutant: advance_nonce moves the counter of the other stream
advance_other(nn, i) == [nn EXCEPT ![1 - i] = nn[1 - i] + 1]

\* MessageStream::advance_nonce
advance_nonce(nn, i) == [nn EXCEPT ![i] = nn[i] + 1]

\* mutant: the counter advances although the slot is empty
receive_next_skipping_empty(p, i, nn, msgs, rpc_ok) ==
    LET nonce == get_next_nonce(nn, i)
        hash == get_next_sequence_hash(p, i, nn)
        response == get_message(msgs, hash)
        opened == decrypt(StreamChannel(p, i), nonce, Unwrap(response).message)
    IN  IF ~rpc_ok
        THEN [kind |-> "err", error |-> "rpc", nonce |-> nonce,
              message |-> None, next_nonce |-> nn]
        ELSE IF ~IsSome(response)
        THEN [kind |-> "none", error |-> "", nonce |-> nonce,
              message |-> None, next_nonce |-> advance_nonce(nn, i)]
        ELSE IF ~opened.ok
        THEN [kind |-> "err", error |-> "aead", nonce |-> nonce,
              message |-> None, next_nonce |-> nn]
        ELSE [kind |-> "some", error |-> "", nonce |-> nonce,
              message |-> Some([ message |-> opened.cleartext,
                                 block_timestamp_ms |-> Unwrap(response).block_timestamp_ms ]),
              next_nonce |-> advance_nonce(nn, i)]

\* mutant: the counter advances before the ciphertext is opened
receive_next_advancing_first(p, i, nn, msgs, rpc_ok) ==
    LET nonce == get_next_nonce(nn, i)
        hash == get_next_sequence_hash(p, i, nn)
        response == get_message(msgs, hash)
        opened == decrypt(StreamChannel(p, i), nonce, Unwrap(response).message)
    IN  IF ~rpc_ok
        THEN [kind |-> "err", error |-> "rpc", nonce |-> nonce,
              message |-> None, next_nonce |-> nn]
        ELSE IF ~IsSome(response)
        THEN [kind |-> "none", error |-> "", nonce |-> nonce,
              message |-> None, next_nonce |-> nn]
        ELSE IF ~opened.ok
        THEN [kind |-> "err", error |-> "aead", nonce |-> nonce,
              message |-> None, next_nonce |-> advance_nonce(nn, i)]
        ELSE [kind |-> "some", error |-> "", nonce |-> nonce,
              message |-> Some([ message |-> opened.cleartext,
                                 block_timestamp_ms |-> Unwrap(response).block_timestamp_ms ]),
              next_nonce |-> advance_nonce(nn, i)]

\* MessageStream::receive_next on stream i of party p, whose counters are nn.
\* rpc_ok: the view call reaches the repository.  Returns the result and the
\* counters the call leaves.
receive_next(p, i, nn, msgs, rpc_ok) ==
    LET nonce == get_next_nonce(nn, i)
        hash == get_next_sequence_hash(p, i, nn)
        response == get_message(msgs, hash)
        opened == decrypt(StreamChannel(p, i), nonce, Unwrap(response).message)
    IN  IF ~rpc_ok
        THEN [kind |-> "err", error |-> "rpc", nonce |-> nonce,
              message |-> None, next_nonce |-> nn]
        ELSE IF ~IsSome(response)
        THEN [kind |-> "none", error |-> "", nonce |-> nonce,
              message |-> None, next_nonce |-> nn]
        ELSE IF ~opened.ok
        THEN [kind |-> "err", error |-> "aead", nonce |-> nonce,
              message |-> None, next_nonce |-> nn]
        ELSE [kind |-> "some", error |-> "", nonce |-> nonce,
              message |-> Some([ message |-> opened.cleartext,
                                 block_timestamp_ms |-> Unwrap(response).block_timestamp_ms ]),
              next_nonce |-> advance_nonce(nn, i)]

(***************************************************************************)
(* The combined stream.                                                    *)
(***************************************************************************)
\* mutant: the comparison of the two timestamps is turned around
select_newest(oldest, timestamp, i) ==
    IF IsSome(oldest) /\ Unwrap(oldest).timestamp > timestamp
    THEN oldest
    ELSE Some([timestamp |-> timestamp, index |-> i])

\* the match on stream_index_with_oldest_message: keep the current choice only
\* when its timestamp is smaller than the candidate's
select_oldest(oldest, timestamp, i) ==
    IF IsSome(oldest) /\ Unwrap(oldest).timestamp < timestamp
    THEN oldest
    ELSE Some([timestamp |-> timestamp, index |-> i])

NotPolled == [kind |-> "skip", error |-> "", nonce |-> 0, message |-> None]

\* mutant: the stream is polled whether or not it holds a lookahead
set_oldest_message_polling_all(p, i, acc, msgs, down) ==
    LET r == receive_next(p, i, acc.next_nonce, msgs, i \notin down)
        polled == [kind |-> r.kind, error |-> r.error, nonce |-> r.nonce,
                   message |-> r.message]
    IN  IF r.kind = "err"
        THEN [acc EXCEPT !.error = TRUE, !.polls[i] = polled,
                         !.next_nonce = r.next_nonce]
        ELSE IF r.kind = "none"
        THEN [acc EXCEPT !.polls[i] = polled, !.next_nonce = r.next_nonce]
        ELSE [acc EXCEPT
                !.polls[i] = polled,
                !.next_nonce = r.next_nonce,
                !.next_message[i] = r.message,
                !.oldest = select_oldest(@, Unwrap(r.message).block_timestamp_ms, i)]

\* mutant: a failed poll leaves a placeholder in the lookahead of the stream
set_oldest_message_buffering_error(p, i, acc, msgs, down) ==
    IF IsSome(acc.next_message[i])
    THEN [acc EXCEPT
            !.oldest = select_oldest(@, Unwrap(acc.next_message[i]).block_timestamp_ms, i)]
    ELSE LET r == receive_next(p, i, acc.next_nonce, msgs, i \notin down)
             polled == [kind |-> r.kind, error |-> r.error, nonce |-> r.nonce,
                        message |-> r.message]
         IN  IF r.kind = "err"
             THEN [acc EXCEPT !.error = TRUE, !.polls[i] = polled,
                              !.next_nonce = r.next_nonce,
                              !.next_message[i] =
                                  Some([message |-> "", block_timestamp_ms |-> 0])]
             ELSE IF r.kind = "none"
             THEN [acc EXCEPT !.polls[i] = polled, !.next_nonce = r.next_nonce]
             ELSE [acc EXCEPT
                     !.polls[i] = polled,
                     !.next_nonce = r.next_nonce,
                     !.next_message[i] = r.message,
                     !.oldest = select_oldest(@, Unwrap(r.message).block_timestamp_ms, i)]

\* one iteration of the loop of CombinedMessageStream::next over stream i
set_oldest_message(p, i, acc, msgs, down) ==
    IF IsSome(acc.next_message[i])
    THEN [acc EXCEPT
            !.oldest = select_oldest(@, Unwrap(acc.next_message[i]).block_timestamp_ms, i)]
    ELSE LET r == receive_next(p, i, acc.next_nonce, msgs, i \notin down)
             polled == [kind |-> r.kind, error |-> r.error, nonce |-> r.nonce,
                        message |-> r.message]
         IN  IF r.kind = "err"
             THEN [acc EXCEPT !.error = TRUE, !.polls[i] = polled,
                              !.next_nonce = r.next_nonce]
             ELSE IF r.kind = "none"
             THEN [acc EXCEPT !.polls[i] = polled, !.next_nonce = r.next_nonce]
             ELSE [acc EXCEPT
                     !.polls[i] = polled,
                     !.next_nonce = r.next_nonce,
                     !.next_message[i] = r.message,
                     !.oldest = select_oldest(@, Unwrap(r.message).block_timestamp_ms, i)]

\* the loop: the first error returns from next() at once
RECURSIVE NextLoop(_, _, _, _, _)
NextLoop(p, i, acc, msgs, down) ==
    IF i >= NumStreams \/ acc.error
    THEN acc
    ELSE NextLoop(p, i + 1, set_oldest_message(p, i, acc, msgs, down), msgs, down)

(***************************************************************************)
(* Operations.  Each sets `last` to what it returned when the run watches  *)
(* that operation, and to Idle otherwise.                                  *)
(***************************************************************************)
NoCounters == [i \in StreamIndexes |-> 0]
NoLookahead == [i \in StreamIndexes |-> None]
Idle == [op |-> "idle"]
Observed(kind, record) == IF kind \in watch THEN record ELSE Idle

\* the value of lock[i] while no task holds the mutex of the counter of stream i
Free == 0
\* no task runs beside the operations
NoMonitor == [pc |-> "none"]
NoTasks ==
    /\ tasks = << >>
    /\ lock = [i \in StreamIndexes |-> Free]
    /\ monitor = NoMonitor

\* the directory of a messenger: CorrespondentId -> AccountId, as a set of entries
NoDirectory == [p \in Parties |-> {}]
DirectoryInsert(directory, id, account) ==
    {e \in directory : e.id # id} \cup {[id |-> id, account |-> account]}

\* Messenger::register_correspondent by party p for its peer: fetches the key of
\* the peer (rpc_ok: the view call goes through), and on a 32-byte key enters
\* the peer in the directory, builds the conversation and its combined stream,
\* and inserts it in place of the one the peer may already have
RegisterCorrespondent(p, rpc_ok) ==
    LET fetched == get_key_for(key_map, Peer(p), rpc_ok)
        error == IF ~fetched.ok THEN fetched.error
                 ELSE IF fetched.bytes.len # 32 THEN "invalid key length"
                 ELSE ""
    IN  /\ IF error = ""
           THEN /\ correspondent_map' =
                     [correspondent_map EXCEPT
                        ![p] = DirectoryInsert(@, fetched.bytes.key, Peer(p))]
                /\ conversations' = [conversations EXCEPT ![p] = TRUE]
                /\ next_nonce' = [next_nonce EXCEPT ![p] = NoCounters]
                /\ next_message' = [next_message EXCEPT ![p] = NoLookahead]
           ELSE UNCHANGED << correspondent_map, conversations, next_nonce, next_message >>
        /\ last' = Observed("register",
                     [op |-> "register", party |-> p,
                      result |-> IF error = "" THEN "ok" ELSE "err", error |-> error])
        /\ UNCHANGED << repo_vars, block_timestamp_ms, rest_vars, sealed, published,
                        emitted >>

\* the chain produces a block
Tick ==
    /\ block_timestamp_ms < MaxTime
    /\ block_timestamp_ms' = block_timestamp_ms + 1
    /\ last' = Idle
    /\ UNCHANGED << repo_vars, conversations, next_nonce, next_message,
                    correspondent_map, rest_vars, sealed, published, emitted >>

\* what a publish transaction does to the contract; `published` keeps the first
\* committed publish to each hash
ApplyPublish(h, message, funded) ==
    LET tx == publish(messages, current_aggregator, aggregator_history,
                      block_timestamp_ms, h, message, funded)
    IN  /\ messages' = tx.messages
        /\ current_aggregator' = tx.current
        /\ aggregator_history' = tx.history
        /\ published' = IF "published" \in watch /\ tx.committed
                           /\ ~contains_key(published, h)
                        THEN published \cup {[ hash |-> h, message |-> message,
                                               block_timestamp_ms |-> block_timestamp_ms ]}
                        ELSE published

\* mutant: send does not look the recipient up
SendCallUnchecked(p, cleartext, rpc) ==
    /\ LET nonce == get_next_nonce(next_nonce[p], 0)
            hash == get_next_sequence_hash(p, 0, next_nonce[p])
            ciphertext == encrypt(StreamChannel(p, 0), nonce, cleartext)
        IN  /\ sealed' = IF "sealed" \in watch
                         THEN sealed \cup {[ channel |-> StreamChannel(p, 0).identifier,
                                             seq |-> nonce, cleartext |-> cleartext ]}
                         ELSE sealed
            /\ IF rpc = "unsent"
               THEN UNCHANGED << repo_vars, published >>
               ELSE ApplyPublish(hash, ciphertext, TRUE)
            /\ last' = Observed("send",
                         [op |-> "send", party |-> p,
                          result |-> IF rpc = "ok" THEN "ok" ELSE "err",
                          error |-> IF rpc = "ok" THEN "" ELSE "rpc",
                          cleartext |-> cleartext, nonce |-> nonce,
                          sequence_hash |-> hash, ciphertext |-> ciphertext,
                          occupied |-> contains_key(messages, hash)])
    /\ UNCHANGED << block_timestamp_ms, conversations, next_nonce, next_message,
                    correspondent_map, rest_vars, emitted >>

\* Messenger::send / send_raw by party p.  rpc: "ok" (the transaction ran and its
\* outcome came back), "lost" (it ran, the call failed), "unsent" (the call failed
\* before it ran).  Wallet::transact returns Ok for any outcome that came back.
SendCall(p, cleartext, rpc) ==
    /\ IF ~conversations[p]
       THEN /\ last' = Observed("send",
                         [op |-> "send", party |-> p, result |-> "err",
                          error |-> "unknown recipient", cleartext |-> cleartext])
            /\ UNCHANGED << repo_vars, sealed, published >>
       ELSE LET nonce == get_next_nonce(next_nonce[p], 0)
                hash == get_next_sequence_hash(p, 0, next_nonce[p])
                ciphertext == encrypt(StreamChannel(p, 0), nonce, cleartext)
            IN  /\ sealed' = IF "sealed" \in watch
                             THEN sealed \cup {[ channel |-> StreamChannel(p, 0).identifier,
                                                 seq |-> nonce, cleartext |-> cleartext ]}
                             ELSE sealed
                /\ IF rpc = "unsent"
                   THEN UNCHANGED << repo_vars, published >>
                   ELSE ApplyPublish(hash, ciphertext, TRUE)
                /\ last' = Observed("send",
                             [op |-> "send", party |-> p,
                              result |-> IF rpc = "ok" THEN "ok" ELSE "err",
                              error |-> IF rpc = "ok" THEN "" ELSE "rpc",
                              cleartext |-> cleartext, nonce |-> nonce,
                              sequence_hash |-> hash, ciphertext |-> ciphertext,
                              occupied |-> contains_key(messages, hash)])
    /\ UNCHANGED << block_timestamp_ms, conversations, next_nonce, next_message,
                    correspondent_map, rest_vars, emitted >>

\* the sends of the model stop once the counter has passed MaxNonce
Send(p, cleartext, rpc) ==
    /\ next_nonce[p][0] <= MaxNonce
    /\ SendCall(p, cleartext, rpc)

\* ciphertexts that do not authenticate, one per slot
Forged(i, n) == Tamper(encrypt(StreamChannel("alice", i), n, "dm 1"))

\* a publish call made straight to the contract, by any account, to slot n of
\* stream i of the conversation
Publish(i, n, message, funded) ==
    LET hash == sequence_hash(StreamChannel("alice", i), n)
    IN  /\ ApplyPublish(hash, message, funded)
        /\ last' = Observed("publish",
                     [op |-> "publish", sequence_hash |-> hash, message |-> message,
                      funded |-> funded, before |-> get_message(messages, hash),
                      now |-> block_timestamp_ms,
                      unchanged |-> (messages' = messages
                                        /\ current_aggregator' = current_aggregator
                                        /\ aggregator_history' = aggregator_history)])
        /\ UNCHANGED << block_timestamp_ms, conversations, next_nonce, next_message,
                        correspondent_map, rest_vars, sealed, emitted >>

\* CombinedMessageStream::next of party p; down: the streams whose view call fails
CombinedNext(p, down) ==
    /\ conversations[p]
    /\ LET acc == NextLoop(p, 0,
                           [ oldest |-> None, error |-> FALSE,
                             next_message |-> next_message[p],
                             next_nonce |-> next_nonce[p],
                             polls |-> [i \in StreamIndexes |-> NotPolled] ],
                           messages, down)
           chosen == Unwrap(acc.oldest).index
           taken == Unwrap(acc.next_message[chosen])
           out == [ sender |-> StreamSender(p, chosen), index |-> chosen,
                    message |-> taken.message,
                    block_timestamp_ms |-> taken.block_timestamp_ms ]
       IN  /\ next_nonce' = [next_nonce EXCEPT ![p] = acc.next_nonce]
           /\ IF acc.error
              THEN /\ next_message' = [next_message EXCEPT ![p] = acc.next_message]
                   /\ emitted' = emitted
                   /\ last' = Observed("next",
                                [op |-> "next", party |-> p, result |-> "err",
                                 polls |-> acc.polls])
              ELSE IF ~IsSome(acc.oldest)
              THEN /\ next_message' = [next_message EXCEPT ![p] = acc.next_message]
                   /\ emitted' = emitted
                   /\ last' = Observed("next",
                                [op |-> "next", party |-> p, result |-> "none",
                                 polls |-> acc.polls])
              ELSE /\ next_message' =
                        [next_message EXCEPT ![p] = [acc.next_message EXCEPT ![chosen] = None]]
                   /\ emitted' = IF "emitted" \in watch
                                 THEN [emitted EXCEPT ![p] = Append(@, out)]
                                 ELSE emitted
                   /\ last' = Observed("next",
                                [op |-> "next", party |-> p, result |-> "some",
                                 polls |-> acc.polls, held |-> acc.next_message,
                                 out |-> out])
    /\ UNCHANGED << repo_vars, block_timestamp_ms, conversations, correspondent_map, rest_vars, sealed, published >>

\* Messenger::direct_message / Messenger::conversation by party p for its peer
Lookup(p) ==
    /\ last' = Observed("lookup",
                 [op |-> "lookup", party |-> p,
                  result |-> IF conversations[p] THEN "ok" ELSE "err",
                  error |-> IF conversations[p] THEN "" ELSE "unknown correspondent"])
    /\ UNCHANGED << repo_vars, block_timestamp_ms, conversations, next_nonce,
                    next_message, correspondent_map, rest_vars, sealed, published,
                    emitted >>

\* a set_public_key call made to the key registry by `account`
SetPublicKey(account, public_key, deposit) ==
    LET tx == set_public_key(key_map, account, public_key, deposit)
    IN  /\ key_map' = tx.key_map
        /\ last' = Observed("key",
                     [op |-> "set_public_key", account |-> account,
                      public_key |-> public_key, deposit |-> deposit,
                      previous |-> get_public_key(key_map, account),
                      committed |-> tx.committed])
        /\ UNCHANGED << repo_vars, block_timestamp_ms, conversations, next_nonce,
                        next_message, correspondent_map, watch, tasks, lock, monitor,
                        sealed, published, emitted >>

\* Messenger::sync_key by party p: KeyRegistry::set_my_key sends set_public_key
\* with the public key of the messenger and a deposit of ONE_NEAR / 2
SyncKey(p, rpc) ==
    LET tx == set_public_key(key_map, p, Some(KeyOf(p)), "ample")
    IN  /\ key_map' = IF rpc = "unsent" THEN key_map ELSE tx.key_map
        /\ last' = Observed("key",
                     [op |-> "sync_key", account |-> p, public_key |-> Some(KeyOf(p)),
                      result |-> IF rpc = "ok" THEN "ok" ELSE "err"])
        /\ UNCHANGED << repo_vars, block_timestamp_ms, conversations, next_nonce,
                        next_message, correspondent_map, watch, tasks, lock, monitor,
                        sealed, published, emitted >>

\* a get_public_key view of the key registry
GetPublicKey(account) ==
    /\ last' = Observed("key",
                 [op |-> "get_public_key", account |-> account,
                  value |-> get_public_key(key_map, account)])
    /\ UNCHANGED << repo_vars, block_timestamp_ms, conversations, next_nonce,
                    next_message, correspondent_map, rest_vars, sealed, published,
                    emitted >>

(***************************************************************************)
(* The protocol: two messengers, the repository and the chain.  Alice      *)
(* sends and runs a combined stream, Bob sends, and any account may        *)
(* publish to the repository.                                              *)
(***************************************************************************)
InitWatching(w) ==
    /\ messages = {}
    /\ current_aggregator = << >>
    /\ aggregator_history = << >>
    /\ block_timestamp_ms = 0
    /\ conversations = [p \in Parties |-> FALSE]
    /\ next_nonce = [p \in Parties |-> NoCounters]
    /\ next_message = [p \in Parties |-> NoLookahead]
    /\ watch = w
    /\ last = Idle
    /\ sealed = {}
    /\ published = {}
    /\ emitted = [p \in Parties |-> << >>]
    /\ key_map = SyncedKeys
    /\ correspondent_map = NoDirectory
    /\ NoTasks

Init == InitWatching({"next"})

Next ==
    \/ \E p \in Parties, rpc_ok \in BOOLEAN : RegisterCorrespondent(p, rpc_ok)
    \/ Tick
    \/ \E p \in Parties, m \in Cleartexts, rpc \in {"ok", "lost", "unsent"} : Send(p, m, rpc)
    \/ \E i \in StreamIndexes, n \in 0..MaxNonce, funded \in BOOLEAN :
          Publish(i, n, Forged(i, n), funded)
    \/ \E p \in Pollers, down \in SUBSET StreamIndexes : CombinedNext(p, down)

Spec == Init /\ [][Next]_vars

\* the same system, recording what send returned and what it sealed
InitSend == InitWatching({"send", "sealed"})
SpecSend == InitSend /\ [][Next]_vars

(***************************************************************************)
(* The repository contract alone: accounts publish a sealed message or a   *)
(* forged one to the slots of the conversation, with or without a deposit  *)
(* that covers the storage fee.                                            *)
(***************************************************************************)
InitRepo == InitWatching({"publish", "published"})

Payloads(i, n) == {encrypt(StreamChannel("alice", i), n, "dm 1"), Forged(i, n)}

NextRepo ==
    \/ Tick
    \/ \E i \in StreamIndexes, n \in 0..MaxNonce, funded \in BOOLEAN :
          \E message \in Payloads(i, n) : Publish(i, n, message, funded)

SpecRepo == InitRepo /\ [][NextRepo]_vars

(***************************************************************************)
(* The combined stream over a repository that already holds the messages   *)
(* of both streams: stream i holds count[i] messages, stamped with         *)
(* pairwise distinct timestamps that increase with the sequence number.    *)
(***************************************************************************)
\* the k-th smallest element of a set of numbers, k counted from 0
Nth(S, k) == CHOOSE x \in S : Cardinality({y \in S : y < x}) = k

StoredStream(p, i, stamps) ==
    { [ hash               |-> sequence_hash(StreamChannel(p, i), n),
        message            |-> encrypt(StreamChannel(p, i), n,
                                       IF i = 0 THEN "dm 1" ELSE "dm 2"),
        block_timestamp_ms |-> Nth(stamps, n) ] : n \in 0..(Cardinality(stamps) - 1) }

StoredAt(stamps, total) ==
    StoredStream("alice", 0, stamps) \cup StoredStream("alice", 1, (1..total) \ stamps)

InitMux ==
    /\ \E total \in 0..(NumStreams * MaxStored) :
         \E stamps \in SUBSET (1..total) :
           /\ Cardinality(stamps) <= MaxStored
           /\ total - Cardinality(stamps) <= MaxStored
           /\ messages = StoredAt(stamps, total)
           /\ block_timestamp_ms = total
    /\ current_aggregator =
          [t \in 1..block_timestamp_ms |->
              (CHOOSE e \in messages : e.block_timestamp_ms = t).hash]
    /\ aggregator_history = << >>
    /\ conversations = [p \in Parties |-> TRUE]
    /\ next_nonce = [p \in Parties |-> NoCounters]
    /\ next_message = [p \in Parties |-> NoLookahead]
    /\ watch = {"next", "emitted"}
    /\ last = Idle
    /\ sealed = {}
    /\ published = {}
    /\ emitted = [p \in Parties |-> << >>]
    /\ key_map = SyncedKeys
    /\ correspondent_map =
          [p \in Parties |-> DirectoryInsert({}, KeyOf(Peer(p)).key, Peer(p))]
    /\ NoTasks

NextMux == \E p \in Pollers, down \in SUBSET StreamIndexes : CombinedNext(p, down)

SpecMux == InitMux /\ [][NextMux]_vars

(***************************************************************************)
(* The channel functions on their own: `last` holds what they returned.    *)
(***************************************************************************)
\* PairChannel::pair(local_secret, remote_public_key) and the sequence hashes of
\* its two channels
Pair(local_secret, remote_public_key, seq) ==
    LET channels == pair(local_secret, remote_public_key)
    IN  /\ last' = [ op |-> "pair", local_secret |-> local_secret,
                     remote_public_key |-> remote_public_key, seq |-> seq,
                     send_identifier |-> channels.send.identifier,
                     recv_identifier |-> channels.recv.identifier,
                     send_hash |-> sequence_hash(channels.send, seq),
                     recv_hash |-> sequence_hash(channels.recv, seq) ]
        /\ UNCHANGED << repo_vars, block_timestamp_ms, conversations, next_nonce,
                        next_message, correspondent_map, rest_vars, sealed, published, emitted >>

\* two parties pair with each other's public key (tests::sequence_hashes)
Agree(alice, bob, s, t) ==
    LET a == pair(alice, PublicKeyFrom(bob))
        b == pair(bob, PublicKeyFrom(alice))
    IN  /\ last' = [ op |-> "agree", alice |-> alice, bob |-> bob, s |-> s, t |-> t,
                     alice_send_s |-> sequence_hash(a.send, s),
                     alice_recv_s |-> sequence_hash(a.recv, s),
                     alice_recv_t |-> sequence_hash(a.recv, t),
                     bob_send_s   |-> sequence_hash(b.send, s),
                     bob_recv_s   |-> sequence_hash(b.recv, s),
                     bob_recv_t   |-> sequence_hash(b.recv, t) ]
        /\ UNCHANGED << repo_vars, block_timestamp_ms, conversations, next_nonce,
                        next_message, correspondent_map, rest_vars, sealed, published, emitted >>

\* one party encrypts on its send channel, then it and its peer decrypt
\* (tests::encryption_decryption)
Seal(alice, bob, s, t, cleartext) ==
    LET a == pair(alice, PublicKeyFrom(bob))
        b == pair(bob, PublicKeyFrom(alice))
        ciphertext == encrypt(a.send, s, cleartext)
    IN  /\ last' = [ op |-> "seal", alice |-> alice, bob |-> bob, s |-> s, t |-> t,
                     cleartext |-> cleartext,
                     own_open  |-> decrypt(a.send, s, ciphertext),
                     peer_open |-> decrypt(b.recv, s, ciphertext),
                     peer_open_t |-> decrypt(b.recv, t, ciphertext) ]
        /\ UNCHANGED << repo_vars, block_timestamp_ms, conversations, next_nonce,
                        next_message, correspondent_map, rest_vars, sealed, published, emitted >>

InitChan == InitWatching({})

NextChan ==
    \/ \E k \in Secrets, pk \in PublicKeys, s \in 0..MaxSeq : Pair(k, pk, s)
    \/ \E a \in Secrets, b \in Secrets, s \in 0..MaxSeq, t \in 0..MaxSeq : Agree(a, b, s, t)
    \/ \E a \in Secrets, b \in Secrets, s \in 0..MaxSeq, t \in 0..MaxSeq :
          \E m \in Cleartexts : Seal(a, b, s, t, m)

SpecChan == InitChan /\ [][NextChan]_vars

(***************************************************************************)
(* The directory (SpecDirectory): the key registry starts empty; accounts  *)
(* set, replace and remove their key, the messengers synchronise theirs,   *)
(* register their peer, look the conversation up, send, and Alice polls.   *)
(***************************************************************************)
InitDirectory ==
    /\ messages = {}
    /\ current_aggregator = << >>
    /\ aggregator_history = << >>
    /\ block_timestamp_ms = 0
    /\ conversations = [p \in Parties |-> FALSE]
    /\ next_nonce = [p \in Parties |-> NoCounters]
    /\ next_message = [p \in Parties |-> NoLookahead]
    /\ watch = {"send", "lookup", "register", "key"}
    /\ last = Idle
    /\ sealed = {}
    /\ published = {}
    /\ emitted = [p \in Parties |-> << >>]
    /\ key_map = NoKeys
    /\ correspondent_map = NoDirectory
    /\ NoTasks

NextDirectory ==
    \/ \E a \in Parties, deposit \in Deposits :
          \E public_key \in KeyValues(a) : SetPublicKey(a, public_key, deposit)
    \/ \E p \in Parties, rpc \in {"ok", "lost", "unsent"} : SyncKey(p, rpc)
    \/ \E a \in Parties : GetPublicKey(a)
    \/ \E p \in Parties, rpc_ok \in BOOLEAN : RegisterCorrespondent(p, rpc_ok)
    \/ \E p \in Parties : Lookup(p)
    \/ \E p \in Parties, rpc \in {"ok", "lost", "unsent"} : Send(p, "dm 1", rpc)
    \/ \E p \in Pollers : CombinedNext(p, {})

SpecDirectory == InitDirectory /\ [][NextDirectory]_vars

PeerKeyIsValid(p) ==
    /\ IsSome(key_map[Peer(p)])
    /\ Unwrap(key_map[Peer(p)]).len = 32

\* C22: when the key registry holds no key for the peer, or a value that is
\* not exactly 32 bytes, register_correspondent returns an error and creates
\* neither a conversation nor a directory entry; the conversations that exist
\* are unchanged.
C22_RegistrationNeedsAKey ==
    [][ (last'.op = "register" /\ ~PeerKeyIsValid(last'.party)) =>
           /\ last'.result = "err"
           /\ conversations' = conversations
           /\ correspondent_map' = correspondent_map
           /\ next_nonce' = next_nonce
           /\ next_message' = next_message ]_vars

\* C22 witness: a registration was refused for the length of the key, after
\* an earlier one had built the conversation that Alice has read a message of
C22_Witness ==
    /\ last.op = "register"
    /\ last.party = "alice"
    /\ last.error = "invalid key length"
    /\ conversations["alice"]
    /\ correspondent_map["alice"] # {}
    /\ next_nonce["alice"][0] = 1

\* C23: after a set_public_key(k) of an account, or its sync_key, has gone
\* through, get_public_key of the account returns k until the account sets
\* another value; a call changes the entry of its caller only.
C23_RegistryKeepsLatestKey ==
    [][ /\ (last'.op = "set_public_key" /\ last'.committed) =>
              key_map' = [key_map EXCEPT ![last'.account] = last'.public_key]
        /\ (last'.op = "set_public_key" /\ ~last'.committed) => key_map' = key_map
        /\ (last'.op = "sync_key" /\ last'.result = "ok") =>
              key_map' = [key_map EXCEPT ![last'.account] = last'.public_key]
        /\ last'.op = "sync_key" =>
              \A a \in Parties \ {last'.account} : key_map'[a] = key_map[a]
        /\ last'.op \notin {"set_public_key", "sync_key"} => key_map' = key_map
        /\ last'.op = "get_public_key" => last'.value = key_map[last'.account] ]_vars

\* C23 witness: an account replaced a short value by its key while the other
\* account kept the key it had synchronised
C23_Witness ==
    /\ last.op = "set_public_key"
    /\ last.committed
    /\ last.previous = Some(ShortKeyOf(last.account))
    /\ last.public_key = Some(KeyOf(last.account))
    /\ key_map[last.account] = last.public_key
    /\ \E a \in Parties \ {last.account} : key_map[a] = Some(KeyOf(a))

(***************************************************************************)
(* The slots of a stream (SpecFill): Alice sends and polls her             *)
(* conversation, the chain produces blocks, and accounts publish straight  *)
(* to the contract, which takes any sequence hash: the slots 0..MaxFill of *)
(* her send stream are written.                                            *)
(***************************************************************************)
\* the highest slot written
MaxFill == 1

InitFill == InitWatching({"send"})

NextFill ==
    \/ \E p \in Pollers : RegisterCorrespondent(p, TRUE)
    \/ Tick
    \/ \E p \in Pollers, rpc \in {"ok", "lost", "unsent"} :
          /\ next_nonce[p][0] <= MaxFill
          /\ SendCall(p, "dm 2", rpc)
    \/ \E n \in 0..MaxFill :
          \E message \in Payloads(0, n) : Publish(0, n, message, TRUE)
    \/ \E p \in Pollers : CombinedNext(p, {})

SpecFill == InitFill /\ [][NextFill]_vars

\* what slot n of stream i of Alice's conversation holds
SlotOf(msgs, i, n) == get_message(msgs, sequence_hash(StreamChannel("alice", i), n))

\* C26 (as stated): in every reachable state slot seq+1 of a stream is occupied
\* only if slot seq is occupied, and the stored timestamp of seq+1 is not
\* smaller than that of seq.
C26_SlotsFilledInOrder ==
    \A i \in StreamIndexes, n \in 0..(MaxFill - 1) :
        IsSome(SlotOf(messages, i, n + 1)) =>
            /\ IsSome(SlotOf(messages, i, n))
            /\ Unwrap(SlotOf(messages, i, n + 1)).block_timestamp_ms
                  >= Unwrap(SlotOf(messages, i, n)).block_timestamp_ms

\* C26 (amended): a send that stores a message stores it at a slot all of whose
\* lower slots are occupied, with a timestamp not smaller than theirs.
C26_SendFillsInOrder ==
    [][ (last'.op = "send" /\ messages' # messages) =>
           \A n \in 0..(last'.nonce - 1) :
               /\ IsSome(SlotOf(messages', 0, n))
               /\ Unwrap(SlotOf(messages', 0, n)).block_timestamp_ms
                     <= Unwrap(get_message(messages', last'.sequence_hash)).block_timestamp_ms
      ]_vars

\* C26 witness: a send has stored a message at slot 1, in a later block than
\* the message of slot 0
C26_Witness ==
    /\ last.op = "send"
    /\ last.error = ""
    /\ last.nonce = 1
    /\ ~last.occupied
    /\ IsSome(SlotOf(messages, 0, 1))
    /\ Unwrap(SlotOf(messages, 0, 1)).block_timestamp_ms
          > Unwrap(SlotOf(messages, 0, 0)).block_timestamp_ms

(***************************************************************************)
(* Bootstrap of a stream counter (SpecProbe): accounts publish to the      *)
(* slots 0..MaxProbe of Alice's receive stream, in any order, and Alice    *)
(* synchronizes the counters of her streams with the repository.           *)
(***************************************************************************)
\* the highest slot written before a probe
MaxProbe == 2

\* the loop of discover_first_unused_nonce from seq i on; fail_at: the seq whose
\* view call fails (-1: none does); probes: the seqs asked for so far
RECURSIVE Probe(_, _, _, _, _)
Probe(channel, msgs, i, fail_at, probes) ==
    IF i = fail_at
    THEN [ok |-> FALSE, value |-> 0, probes |-> Append(probes, i)]
    ELSE IF ~IsSome(get_message(msgs, sequence_hash(channel, i)))
    THEN [ok |-> TRUE, value |-> i, probes |-> Append(probes, i)]
    ELSE Probe(channel, msgs, i + 1, fail_at, Append(probes, i))

\* mutant: for i in 1..
discover_first_unused_nonce_from_one(channel, msgs, fail_at) ==
    Probe(channel, msgs, 1, fail_at, << >>)

\* MessageRepository::discover_first_unused_nonce: for i in 0..
discover_first_unused_nonce(channel, msgs, fail_at) ==
    Probe(channel, msgs, 0, fail_at, << >>)

\* MessageStream::synchronize_nonce on stream i of party p
SynchronizeNonce(p, i, fail_at) ==
    LET found == discover_first_unused_nonce(StreamChannel(p, i), messages, fail_at)
    IN  /\ next_nonce' = IF found.ok
                         THEN [next_nonce EXCEPT ![p][i] = found.value]
                         ELSE next_nonce
        /\ last' = Observed("synchronize",
                     [op |-> "synchronize", party |-> p, stream |-> i,
                      result |-> IF found.ok THEN "ok" ELSE "err",
                      value |-> found.value, probes |-> found.probes,
                      before |-> next_nonce[p][i]])
        /\ UNCHANGED << repo_vars, block_timestamp_ms, conversations, next_message,
                        correspondent_map, rest_vars, sealed, published, emitted >>

InitProbe == InitWatching({"synchronize"})

NextProbe ==
    \/ \E n \in 0..MaxProbe :
          Publish(1, n, encrypt(StreamChannel("alice", 1), n, "dm 1"), TRUE)
    \/ \E i \in StreamIndexes, fail_at \in (-1)..(MaxProbe + 1) :
          SynchronizeNonce("alice", i, fail_at)

SpecProbe == InitProbe /\ [][NextProbe]_vars

\* C29: discover_first_unused_nonce probes seq 0, 1, 2, ... and returns the
\* smallest seq whose slot is unoccupied; synchronize_nonce sets the counter of
\* the stream to exactly that value, and leaves it unchanged when a view call
\* of the probe fails.
C29_BootstrapProbesLinearly ==
    last.op = "synchronize" =>
        LET channel == StreamChannel(last.party, last.stream)
            counter == next_nonce[last.party][last.stream]
        IN  IF last.result = "ok"
            THEN /\ last.probes = [k \in 1..(last.value + 1) |-> k - 1]
                 /\ ~contains_key(messages, sequence_hash(channel, last.value))
                 /\ \A n \in 0..(last.value - 1) :
                       contains_key(messages, sequence_hash(channel, n))
                 /\ counter = last.value
            ELSE counter = last.before

\* C29 witness: with slots 0 and 2 of the stream occupied and slot 1 not, the
\* counter went from 0 to 1
C29_Witness ==
    /\ last.op = "synchronize"
    /\ last.result = "ok"
    /\ last.before = 0
    /\ last.value = 1
    /\ contains_key(messages, sequence_hash(StreamChannel(last.party, last.stream), 2))

(***************************************************************************)
(* Concurrent calls on the streams of Alice's conversation (SpecTasks).    *)
(* Two tasks each execute one call, receive_next on a stream or send,      *)
(* statement by statement: the counter mutex is taken and dropped in       *)
(* separate steps, and every request to the ledger is a step of its own.   *)
(* The initial state draws the calls, the outcome of their requests and    *)
(* what the repository holds; `last` keeps the state the calls started in. *)
(***************************************************************************)
TaskIds == {1, 2}

\* where a call goes on from position task.pc; outcome: what the request of a
\* "get" or "key" step came to
\* mutant: the guard of the second lock() lives until the call returns
NextPcHoldingGuard(task, outcome) ==
    CASE task.pc = "nonce_lock"     -> "nonce_unlock"
      [] task.pc = "nonce_unlock"   -> "hash_lock"
      [] task.pc = "hash_lock"      -> IF task.op = "send" THEN "key" ELSE "get"
      [] task.pc = "hash_unlock"    -> IF task.op = "send" THEN "key" ELSE "get"
      [] task.pc = "get"            -> IF outcome = "some" THEN "advance_lock" ELSE "done"
      [] task.pc = "advance_lock"   -> "advance_unlock"
      [] task.pc = "advance_unlock" -> "done"
      [] task.pc = "key"            -> IF outcome = "ok" THEN "put" ELSE "done"
      [] task.pc = "put"            -> "done"

\* mutant: a request that failed is sent once more
NextPcRetrying(task, outcome) ==
    CASE task.pc = "nonce_lock"     -> "nonce_unlock"
      [] task.pc = "nonce_unlock"   -> "hash_lock"
      [] task.pc = "hash_lock"      -> "hash_unlock"
      [] task.pc = "hash_unlock"    -> IF task.op = "send" THEN "key" ELSE "get"
      [] task.pc = "get"            -> IF outcome = "some" THEN "advance_lock"
                                       ELSE IF outcome = "rpc" /\ task.gets = 0 THEN "get"
                                       ELSE "done"
      [] task.pc = "advance_lock"   -> "advance_unlock"
      [] task.pc = "advance_unlock" -> "done"
      [] task.pc = "key"            -> IF outcome = "ok" THEN "put" ELSE "done"
      [] task.pc = "put"            -> IF outcome = "rpc" /\ task.puts = 0 THEN "put"
                                       ELSE "done"

\* PairStream::receive_next and Messenger::send_raw: get_next_nonce (lock, read,
\* drop the guard), get_next_sequence_hash (the same again), then the view call
\* and advance_nonce, or Wallet::transact (the access key query, then the
\* transaction)
NextPc(task, outcome) ==
    CASE task.pc = "nonce_lock"     -> "nonce_unlock"
      [] task.pc = "nonce_unlock"   -> "hash_lock"
      [] task.pc = "hash_lock"      -> "hash_unlock"
      [] task.pc = "hash_unlock"    -> IF task.op = "send" THEN "key" ELSE "get"
      [] task.pc = "get"            -> IF outcome = "some" THEN "advance_lock" ELSE "done"
      [] task.pc = "advance_lock"   -> "advance_unlock"
      [] task.pc = "advance_unlock" -> "done"
      [] task.pc = "key"            -> IF outcome = "ok" THEN "put" ELSE "done"
      [] task.pc = "put"            -> "done"

NoResult == [kind |-> "", error |-> "", message |-> None]

\* a call before its first statement.  rpc: "ok", "lost" (the transaction ran,
\* the request failed), "unsent" (the request failed, nothing ran), "nokey"
\* (the access key query of Wallet::transact failed)
NewCall(op, stream, rpc) ==
    [ op |-> op, stream |-> stream, rpc |-> rpc, pc |-> "nonce_lock",
      nonce |-> 0, hash |-> Sha256(<< >>), result |-> NoResult,
      gets |-> 0, puts |-> 0, advanced |-> FALSE ]

Calls ==
    {NewCall("receive_next", i, rpc) : i \in StreamIndexes, rpc \in {"ok", "unsent"}}
       \cup {NewCall("send", 0, rpc) : rpc \in {"ok", "lost", "unsent", "nokey"}}

\* MutexGuard: lock() of the counter of the stream by task t, with what the
\* statement does under the guard
TaskLock(t) ==
    LET task == tasks[t]
        i == task.stream
        nn == next_nonce["alice"]
    IN  /\ task.pc \in {"nonce_lock", "hash_lock", "advance_lock"}
        /\ lock[i] = Free
        /\ lock' = [lock EXCEPT ![i] = t]
        /\ tasks' = [tasks EXCEPT ![t] =
                        [task EXCEPT
                           !.pc = NextPc(task, ""),
                           !.nonce = IF task.pc = "nonce_lock"
                                     THEN get_next_nonce(nn, i) ELSE @,
                           !.hash = IF task.pc = "hash_lock"
                                    THEN get_next_sequence_hash("alice", i, nn) ELSE @,
                           !.advanced = (task.pc = "advance_lock") \/ @]]
        /\ next_nonce' = IF task.pc = "advance_lock"
                         THEN [next_nonce EXCEPT !["alice"] = advance_nonce(nn, i)]
                         ELSE next_nonce
        /\ UNCHANGED << repo_vars, block_timestamp_ms, conversations, next_message,
                        correspondent_map, watch, key_map, monitor, last, sealed,
                        published, emitted >>

\* the guard is dropped at the end of the statement
TaskUnlock(t) ==
    LET task == tasks[t]
    IN  /\ task.pc \in {"nonce_unlock", "hash_unlock", "advance_unlock"}
        /\ lock' = [lock EXCEPT ![task.stream] = Free]
        /\ tasks' = [tasks EXCEPT ![t] = [task EXCEPT !.pc = NextPc(task, "")]]
        /\ UNCHANGED << repo_vars, block_timestamp_ms, conversations, next_nonce,
                        next_message, correspondent_map, watch, key_map, monitor, last,
                        sealed, published, emitted >>

\* the view call of receive_next comes back, and the ciphertext is opened
TaskGet(t) ==
    LET task == tasks[t]
        response == get_message(messages, task.hash)
        opened == decrypt(StreamChannel("alice", task.stream), task.nonce,
                          Unwrap(response).message)
        result ==
            IF task.rpc # "ok" THEN [kind |-> "err", error |-> "rpc", message |-> None]
            ELSE IF ~IsSome(response) THEN [kind |-> "none", error |-> "", message |-> None]
            ELSE IF ~opened.ok THEN [kind |-> "err", error |-> "aead", message |-> None]
            ELSE [ kind |-> "some", error |-> "",
                   message |-> Some([ message |-> opened.cleartext,
                                      block_timestamp_ms |->
                                          Unwrap(response).block_timestamp_ms ]) ]
    IN  /\ task.pc = "get"
        /\ tasks' = [tasks EXCEPT ![t] =
                        [task EXCEPT
                           !.pc = NextPc(task, IF result.error = "rpc" THEN "rpc"
                                               ELSE result.kind),
                           !.gets = @ + 1,
                           !.result = result]]
        /\ UNCHANGED << repo_vars, block_timestamp_ms, conversations, next_nonce,
                        next_message, correspondent_map, watch, key_map, lock, monitor,
                        last, sealed, published, emitted >>

\* Wallet::transact: RpcClientWrapper::sync_account_key comes back
TaskKey(t) ==
    LET task == tasks[t]
        failed == task.rpc = "nokey"
    IN  /\ task.pc = "key"
        /\ tasks' = [tasks EXCEPT ![t] =
                        [task EXCEPT
                           !.pc = NextPc(task, IF failed THEN "rpc" ELSE "ok"),
                           !.result = IF failed
                                      THEN [kind |-> "err", error |-> "rpc",
                                            message |-> None]
                                      ELSE @]]
        /\ UNCHANGED << repo_vars, block_timestamp_ms, conversations, next_nonce,
                        next_message, correspondent_map, watch, key_map, lock, monitor,
                        last, sealed, published, emitted >>

\* Wallet::transact: the publish transaction of send is broadcast and its
\* outcome, whatever it is, comes back or does not
TaskPut(t) ==
    LET task == tasks[t]
        ciphertext == encrypt(StreamChannel("alice", task.stream), task.nonce, "dm 2")
    IN  /\ task.pc = "put"
        /\ IF task.rpc = "unsent"
           THEN UNCHANGED << repo_vars, published >>
           ELSE ApplyPublish(task.hash, ciphertext, TRUE)
        /\ tasks' = [tasks EXCEPT ![t] =
                        [task EXCEPT
                           !.pc = NextPc(task, IF task.rpc = "ok" THEN "ok" ELSE "rpc"),
                           !.puts = @ + 1,
                           !.result = [ kind |-> IF task.rpc = "ok" THEN "ok" ELSE "err",
                                        error |-> IF task.rpc = "ok" THEN "" ELSE "rpc",
                                        message |-> None ]]]
        /\ UNCHANGED << block_timestamp_ms, conversations, next_nonce, next_message,
                        correspondent_map, watch, key_map, lock, monitor, last, sealed,
                        emitted >>

\* what the slot 0 of each stream may hold when the calls start
SlotContents(i) ==
    {None, Some(encrypt(StreamChannel("alice", i), 0, "dm 1")), Some(Forged(i, 0))}

InitTasks ==
    /\ \E held \in [StreamIndexes -> UNION {SlotContents(i) : i \in StreamIndexes}] :
          /\ \A i \in StreamIndexes : held[i] \in SlotContents(i)
          /\ messages = { [ hash |-> sequence_hash(StreamChannel("alice", i), 0),
                            message |-> Unwrap(held[i]),
                            block_timestamp_ms |-> 0 ] :
                          i \in {j \in StreamIndexes : IsSome(held[j])} }
    /\ \E order \in [1..Cardinality(messages) -> {e.hash : e \in messages}] :
          /\ \A h \in {e.hash : e \in messages} : \E k \in DOMAIN order : order[k] = h
          /\ \A k \in DOMAIN order :
                k < Len(order) => order[k] = sequence_hash(StreamChannel("alice", 0), 0)
          /\ current_aggregator = order
    /\ aggregator_history = << >>
    /\ block_timestamp_ms = 1
    /\ conversations = [p \in Parties |-> TRUE]
    /\ next_nonce = [p \in Parties |-> NoCounters]
    /\ next_message = [p \in Parties |-> NoLookahead]
    /\ watch = {}
    /\ last = [op |-> "calls", messages |-> messages, next_nonce |-> next_nonce["alice"]]
    /\ sealed = {}
    /\ published = {}
    /\ emitted = [p \in Parties |-> << >>]
    /\ key_map = SyncedKeys
    /\ correspondent_map =
          [p \in Parties |-> DirectoryInsert({}, KeyOf(Peer(p)).key, Peer(p))]
    /\ tasks \in [TaskIds -> Calls]
    /\ lock = [i \in StreamIndexes |-> Free]
    /\ monitor = NoMonitor

NextTasks ==
    \/ \E t \in TaskIds : TaskLock(t)
    \/ \E t \in TaskIds : TaskUnlock(t)
    \/ \E t \in TaskIds : TaskGet(t)
    \/ \E t \in TaskIds : TaskKey(t)
    \/ \E t \in TaskIds : TaskPut(t)

SpecTasks == InitTasks /\ [][NextTasks]_vars

\* a request of the call to the ledger is in flight
InFlight(task) == task.pc \in {"get", "key", "put"}

\* C24: the counter lock of a stream is never held while a repository get or
\* put is in flight: receive_next and send read the seq and drop the lock
\* before the request, and receive_next takes it again only to advance after
\* the message was opened; another task can take the lock during the request.
C24_NoLockAcrossIO ==
    \A t \in TaskIds :
        /\ InFlight(tasks[t]) => \A i \in StreamIndexes : lock[i] # t
        /\ tasks[t].advanced => tasks[t].result.kind = "some"

\* C24 witness: while the view call of one task is in flight, the other task
\* holds the lock of the same stream and has read its counter
C24_Witness ==
    /\ tasks[1].pc = "get"
    /\ tasks[2].stream = tasks[1].stream
    /\ tasks[2].pc = "nonce_unlock"
    /\ lock[tasks[1].stream] = 2

\* the state and the result a call leaves when it runs with nothing beside it
RunAlone(call, state) ==
    IF call.op = "receive_next"
    THEN LET r == receive_next("alice", call.stream, state.next_nonce, state.messages,
                               call.rpc = "ok")
         IN  [ messages |-> state.messages, next_nonce |-> r.next_nonce,
               result |-> [kind |-> r.kind, error |-> r.error, message |-> r.message] ]
    ELSE LET nonce == get_next_nonce(state.next_nonce, 0)
             hash == get_next_sequence_hash("alice", 0, state.next_nonce)
             tx == publish(state.messages, << >>, << >>, block_timestamp_ms, hash,
                           encrypt(StreamChannel("alice", 0), nonce, "dm 2"), TRUE)
         IN  [ messages |-> IF call.rpc \in {"ok", "lost"} THEN tx.messages
                            ELSE state.messages,
               next_nonce |-> state.next_nonce,
               result |-> [ kind |-> IF call.rpc = "ok" THEN "ok" ELSE "err",
                            error |-> IF call.rpc = "ok" THEN "" ELSE "rpc",
                            message |-> None ] ]

\* the calls have returned what they return, and left what they leave, when
\* the call of task `first` runs alone and the call of the other task after it
AsOneAfterTheOther(first) ==
    LET second == CHOOSE t \in TaskIds : t # first
        start == [messages |-> last.messages, next_nonce |-> last.next_nonce]
        a == RunAlone(tasks[first], start)
        b == RunAlone(tasks[second], [messages |-> a.messages, next_nonce |-> a.next_nonce])
    IN  /\ tasks[first].result = a.result
        /\ tasks[second].result = b.result
        /\ messages = b.messages
        /\ next_nonce["alice"] = b.next_nonce

\* C25: calls on different streams of a conversation do not interfere: however
\* their steps interleave, each call reads and moves the counter of its own
\* stream only, and once both have returned the counters, the repository and
\* the results are those of the two calls run one after the other.
C25_StreamsDoNotInterfere ==
    /\ [][ \A t \in TaskIds :
             tasks'[t] # tasks[t] =>
                /\ \A j \in StreamIndexes \ {tasks[t].stream} :
                      next_nonce'["alice"][j] = next_nonce["alice"][j]
                /\ tasks'[t].nonce # tasks[t].nonce =>
                      tasks'[t].nonce = next_nonce["alice"][tasks[t].stream] ]_vars
    /\ [](( /\ tasks[1].stream # tasks[2].stream
            /\ \A t \in TaskIds : tasks[t].pc = "done" ) =>
              \A first \in TaskIds : AsOneAfterTheOther(first))

\* C25 witness: a receive_next has read its message and moved its counter
\* while the publish of a send on the other stream is in flight
C25_Witness ==
    /\ tasks[1].op = "send" /\ tasks[1].pc = "put" /\ tasks[1].rpc = "ok"
    /\ tasks[2].op = "receive_next" /\ tasks[2].stream = 1
    /\ tasks[2].pc = "done" /\ tasks[2].result.kind = "some"
    /\ next_nonce["alice"] = [i \in StreamIndexes |-> i]

\* C28: the core never retries repository I/O: a call makes at most one
\* request to the repository; a get or a put that fails is returned as an
\* error by the call that made it, after that one request, and the call does
\* not move the counter.
C28_NoRetry ==
    \A t \in TaskIds :
        LET task == tasks[t]
        IN  /\ task.gets + task.puts <= 1
            /\ (task.pc = "done" /\ task.rpc # "ok") =>
                  /\ task.result = [kind |-> "err", error |-> "rpc", message |-> None]
                  /\ ~task.advanced
                  /\ task.op = "receive_next" => task.gets = 1
                  /\ (task.op = "send" /\ task.rpc # "nokey") => task.puts = 1

\* C28 witness: a receive_next whose view call failed at a slot that holds a
\* message, and a send whose transaction was lost, have both returned
C28_Witness ==
    /\ tasks[1].op = "receive_next" /\ tasks[1].stream = 1 /\ tasks[1].pc = "done"
    /\ tasks[1].result.error = "rpc" /\ tasks[1].gets = 1
    /\ contains_key(messages, tasks[1].hash)
    /\ tasks[2].op = "send" /\ tasks[2].pc = "done" /\ tasks[2].rpc = "lost"
    /\ tasks[2].puts = 1
    /\ next_nonce["alice"] = NoCounters

(***************************************************************************)
(* The polling task of a conversation (SpecMonitor).  monitor_conversation *)
(* spawns a task that calls next() of Alice's combined stream while the    *)
(* `alive` flag is set and hands each message to a channel of capacity 1;  *)
(* the caller receives from the channel, and when it leaves the            *)
(* conversation it calls kill() and drops the receiver.  next() is taken   *)
(* one stream at a time, as it awaits the view call of each stream, so     *)
(* that sends and blocks fall between the polls of one call.  `emitted`    *)
(* keeps, with each message next() returned, what the call polled.         *)
(***************************************************************************)
NewAccumulator(p) ==
    [ oldest |-> None, error |-> FALSE, next_message |-> next_message[p],
      next_nonce |-> next_nonce[p], polls |-> [i \in StreamIndexes |-> NotPolled] ]

\* tokio::spawn in monitor_conversation: the task is about to test the flag
Spawned ==
    [ pc |-> "check", alive |-> TRUE, i |-> 0, acc |-> NewAccumulator("alice"),
      item |-> None, queue |-> << >>, receiver |-> "open", killed_at |-> "" ]

\* mutant: loop { .. } in place of while alive.load(..) { .. }
MonitorLoop ==
    /\ monitor.pc = "check"
    /\ monitor' = [monitor EXCEPT !.pc = "poll", !.i = 0,
                                  !.acc = NewAccumulator("alice")]
    /\ UNCHANGED << repo_vars, block_timestamp_ms, conversations, next_nonce,
                    next_message, correspondent_map, watch, key_map, tasks, lock, last,
                    sealed, published, emitted >>

\* while alive.load(Ordering::SeqCst): the task enters next() or ends
MonitorCheck ==
    /\ monitor.pc = "check"
    /\ monitor' = IF monitor.alive
                  THEN [monitor EXCEPT !.pc = "poll", !.i = 0,
                                       !.acc = NewAccumulator("alice")]
                  ELSE [monitor EXCEPT !.pc = "done"]
    /\ UNCHANGED << repo_vars, block_timestamp_ms, conversations, next_nonce,
                    next_message, correspondent_map, watch, key_map, tasks, lock, last,
                    sealed, published, emitted >>

\* one iteration of the loop of next(): stream monitor.i is polled unless its
\* lookahead is held; failed: the view call fails, next() returns the error and
\* unwrap() ends the task
MonitorPoll(failed) ==
    LET i == monitor.i
        acc == set_oldest_message("alice", i, monitor.acc, messages,
                                  IF failed THEN {i} ELSE {})
    IN  /\ monitor.pc = "poll"
        /\ next_nonce' = [next_nonce EXCEPT !["alice"] = acc.next_nonce]
        /\ next_message' = [next_message EXCEPT !["alice"] = acc.next_message]
        /\ monitor' = [monitor EXCEPT
                          !.acc = acc,
                          !.i = IF i + 1 < NumStreams /\ ~acc.error THEN i + 1 ELSE i,
                          !.pc = IF acc.error THEN "done"
                                 ELSE IF i + 1 < NumStreams THEN "poll"
                                 ELSE "return"]
        /\ UNCHANGED << repo_vars, block_timestamp_ms, conversations, correspondent_map,
                        watch, key_map, tasks, lock, last, sealed, published, emitted >>

\* the end of next(): the oldest lookahead is taken and returned, and the task
\* goes on to hand it off, or nothing is returned and the task sleeps
MonitorReturn ==
    LET acc == monitor.acc
        chosen == Unwrap(acc.oldest).index
        taken == Unwrap(acc.next_message[chosen])
        out == [ sender |-> StreamSender("alice", chosen), index |-> chosen,
                 message |-> taken.message,
                 block_timestamp_ms |-> taken.block_timestamp_ms,
                 polls |-> acc.polls ]
    IN  /\ monitor.pc = "return"
        /\ IF IsSome(acc.oldest)
           THEN /\ next_message' = [next_message EXCEPT !["alice"][chosen] = None]
                /\ emitted' = [emitted EXCEPT !["alice"] = Append(@, out)]
                /\ monitor' = [monitor EXCEPT !.pc = "send", !.item = Some(out)]
           ELSE /\ monitor' = [monitor EXCEPT !.pc = "sleep"]
                /\ UNCHANGED << next_message, emitted >>
        /\ UNCHANGED << repo_vars, block_timestamp_ms, conversations, next_nonce,
                        correspondent_map, watch, key_map, tasks, lock, last, sealed,
                        published >>

\* send.send(..).await.unwrap(): waits while the channel is full; an error,
\* the receiver being dropped, ends the task
MonitorSend ==
    /\ monitor.pc = "send"
    /\ monitor.receiver = "dropped" \/ Len(monitor.queue) < 1
    /\ monitor' = IF monitor.receiver = "dropped"
                  THEN [monitor EXCEPT !.pc = "done", !.item = None]
                  ELSE [monitor EXCEPT !.pc = "check", !.item = None,
                                       !.queue = Append(@, Unwrap(monitor.item))]
    /\ UNCHANGED << repo_vars, block_timestamp_ms, conversations, next_nonce,
                    next_message, correspondent_map, watch, key_map, tasks, lock, last,
                    sealed, published, emitted >>

\* sleep(Duration::from_millis(500)) is over
MonitorWake ==
    /\ monitor.pc = "sleep"
    /\ monitor' = [monitor EXCEPT !.pc = "check"]
    /\ UNCHANGED << repo_vars, block_timestamp_ms, conversations, next_nonce,
                    next_message, correspondent_map, watch, key_map, tasks, lock, last,
                    sealed, published, emitted >>

\* the caller: recv.recv() yields a message
Recv ==
    /\ monitor.alive
    /\ monitor.queue # << >>
    /\ monitor' = [monitor EXCEPT !.queue = Tail(@)]
    /\ UNCHANGED << repo_vars, block_timestamp_ms, conversations, next_nonce,
                    next_message, correspondent_map, watch, key_map, tasks, lock, last,
                    sealed, published, emitted >>

\* the caller: kill()
Kill ==
    /\ monitor.alive
    /\ monitor' = [monitor EXCEPT !.alive = FALSE, !.killed_at = monitor.pc]
    /\ UNCHANGED << repo_vars, block_timestamp_ms, conversations, next_nonce,
                    next_message, correspondent_map, watch, key_map, tasks, lock, last,
                    sealed, published, emitted >>

\* the caller: `break` after kill(), the receiver goes out of scope
Leave ==
    /\ ~monitor.alive
    /\ monitor.receiver = "open"
    /\ monitor' = [monitor EXCEPT !.receiver = "dropped", !.queue = << >>]
    /\ UNCHANGED << repo_vars, block_timestamp_ms, conversations, next_nonce,
                    next_message, correspondent_map, watch, key_map, tasks, lock, last,
                    sealed, published, emitted >>

InitMonitor ==
    /\ messages = {}
    /\ current_aggregator = << >>
    /\ aggregator_history = << >>
    /\ block_timestamp_ms = 0
    /\ conversations = [p \in Parties |-> TRUE]
    /\ next_nonce = [p \in Parties |-> NoCounters]
    /\ next_message = [p \in Parties |-> NoLookahead]
    /\ watch = {}
    /\ last = Idle
    /\ sealed = {}
    /\ published = {}
    /\ emitted = [p \in Parties |-> << >>]
    /\ key_map = SyncedKeys
    /\ correspondent_map =
          [p \in Parties |-> DirectoryInsert({}, KeyOf(Peer(p)).key, Peer(p))]
    /\ tasks = << >>
    /\ lock = [i \in StreamIndexes |-> Free]
    /\ monitor = Spawned

\* a step of the task
MonitorStep ==
    \/ MonitorCheck
    \/ \E failed \in BOOLEAN : MonitorPoll(failed)
    \/ MonitorReturn
    \/ MonitorSend
    \/ MonitorWake

NextMonitor ==
    \/ MonitorStep
    \/ Recv
    \/ Kill
    \/ Leave
    \/ Tick
    \/ \E p \in Parties : Send(p, "dm 1", "ok")

\* the runtime keeps running the task, whose requests and sleeps come to an
\* end, and the caller that called kill() leaves the scope of the receiver
SpecMonitor ==
    InitMonitor /\ [][NextMonitor]_vars /\ WF_vars(MonitorStep) /\ WF_vars(Leave)

\* the messages next() has returned to the task, in the order of the calls
Emitted == emitted["alice"]

\* next() returned message k after message j, from another stream and with a
\* smaller timestamp
OutOfOrder(j, k) ==
    /\ j < k
    /\ Emitted[j].index # Emitted[k].index
    /\ Emitted[k].block_timestamp_ms < Emitted[j].block_timestamp_ms

\* C27: across streams the combined stream is only eventually ordered: when
\* writes interleave with polling, next() emits a message of one stream and a
\* later next() a message of another stream with a smaller timestamp (the
\* witness); this happens only when the earlier call polled the slot of the
\* later message's stream and found it empty.
C27_LateWriteIsEmittedLate ==
    \A j \in DOMAIN Emitted, k \in DOMAIN Emitted :
        OutOfOrder(j, k) => Emitted[j].polls[Emitted[k].index].kind = "none"

\* C27 witness: two calls of next() have emitted out of timestamp order
C27_Witness ==
    \E j \in DOMAIN Emitted, k \in DOMAIN Emitted : OutOfOrder(j, k)

\* C30: the polling task is cancellable between polls: once kill() was called
\* the task starts no further next() call (it finishes at most the call and
\* the hand-off it is in), and it eventually terminates.
C30_KillStopsPolling ==
    /\ [][ ~monitor.alive => ~(monitor.pc = "check" /\ monitor'.pc = "poll") ]_vars
    /\ (~monitor.alive) ~> (monitor.pc = "done")

\* C30 witness: the task was killed in the middle of a next() call, returned a
\* message from that call, and ended
C30_Witness ==
    /\ ~monitor.alive
    /\ monitor.killed_at = "poll"
    /\ monitor.pc = "done"
    /\ Len(Emitted) = 1

\* C33: in every send and every receive_next the seq used as the AEAD nonce
\* equals the seq the slot address was computed from, whatever another task
\* does to the counter of the same stream between the two reads.
C33_NonceMatchesAddress ==
    \A t \in TaskIds :
        tasks[t].pc \notin {"nonce_lock", "nonce_unlock", "hash_lock"} =>
            tasks[t].hash = sequence_hash(StreamChannel("alice", tasks[t].stream),
                                          tasks[t].nonce)

(***************************************************************************)
(* StructuredMessage on the wire (SpecWire): messages are serialized, and  *)
(* byte strings of every length up to that of the longest message are      *)
(* parsed.  A String is a sequence of code points; in UTF-8 the code point *)
(* 88 is the byte 88 and the code point 233 the bytes 195, 169.            *)
(***************************************************************************)
\* the const parameter of StructuredMessage
KEY_SIZE == 1
\* code points of the contents of a message
MaxContents == 1

HEADER_MAGIC == << 88, 88, 88, 88 >>

WireBytes == {88, 169, 195}
CodePoints == {88, 233}

\* the sequences over S of length 0..n
SeqUpTo(S, n) == UNION {[1..k -> S] : k \in 0..n}

\* bytes[from..to] of Rust, 0-based and half open
Slice(bytes, from, to) == SubSeq(bytes, from + 1, to)

\* str::as_bytes
RECURSIVE as_bytes(_)
as_bytes(string) ==
    IF string = << >> THEN << >>
    ELSE (IF Head(string) < 128 THEN << Head(string) >>
          ELSE << 192 + (Head(string) \div 64), 128 + (Head(string) % 64) >>)
         \o as_bytes(Tail(string))

\* String::from_utf8
RECURSIVE from_utf8(_)
from_utf8(bytes) ==
    IF bytes = << >> THEN [ok |-> TRUE, string |-> << >>]
    ELSE IF Head(bytes) < 128
    THEN LET rest == from_utf8(Tail(bytes))
         IN  [ok |-> rest.ok, string |-> << Head(bytes) >> \o rest.string]
    ELSE IF Head(bytes) >= 194 /\ Head(bytes) < 224 /\ Len(bytes) >= 2
            /\ bytes[2] >= 128 /\ bytes[2] < 192
    THEN LET rest == from_utf8(Tail(Tail(bytes)))
         IN  [ok |-> rest.ok,
              string |-> << (Head(bytes) - 192) * 64 + (bytes[2] - 128) >> \o rest.string]
    ELSE [ok |-> FALSE, string |-> << >>]

\* mutant: the key is written after the contents
to_bytes_key_last(sm) == HEADER_MAGIC \o as_bytes(sm.contents) \o sm.next_key

\* StructuredMessage::to_bytes
to_bytes(sm) == HEADER_MAGIC \o sm.next_key \o as_bytes(sm.contents)

\* StructuredMessage::try_from_bytes; a slice that reaches past the end of the
\* input panics
try_from_bytes(bytes) ==
    IF Len(bytes) < 4 THEN [kind |-> "panic", message |-> None]
    ELSE IF Slice(bytes, 0, 4) # HEADER_MAGIC THEN [kind |-> "none", message |-> None]
    ELSE IF Len(bytes) < 4 + KEY_SIZE THEN [kind |-> "panic", message |-> None]
    ELSE LET contents == from_utf8(Slice(bytes, 4 + KEY_SIZE, Len(bytes)))
         IN  IF ~contents.ok THEN [kind |-> "none", message |-> None]
             ELSE [ kind |-> "some",
                    message |-> Some([ next_key |-> Slice(bytes, 4, 4 + KEY_SIZE),
                                       contents |-> contents.string ]) ]

StructuredMessages ==
    [next_key : [1..KEY_SIZE -> WireBytes], contents : SeqUpTo(CodePoints, MaxContents)]

\* a message is serialized and parsed back
Serialize(sm) ==
    /\ last' = [ op |-> "to_bytes", sm |-> sm, bytes |-> to_bytes(sm),
                 parsed |-> try_from_bytes(to_bytes(sm)) ]
    /\ UNCHANGED << repo_vars, block_timestamp_ms, conversations, next_nonce,
                    next_message, correspondent_map, rest_vars, sealed, published, emitted >>

\* a byte string is parsed
Parse(bytes) ==
    /\ last' = [op |-> "try_from_bytes", bytes |-> bytes, parsed |-> try_from_bytes(bytes)]
    /\ UNCHANGED << repo_vars, block_timestamp_ms, conversations, next_nonce,
                    next_message, correspondent_map, rest_vars, sealed, published, emitted >>

InitWire == InitWatching({})

NextWire ==
    \/ last = Idle /\ \E sm \in StructuredMessages : Serialize(sm)
    \/ last = Idle /\ \E bytes \in SeqUpTo(WireBytes, 4 + KEY_SIZE + 2 * MaxContents) :
                          Parse(bytes)

SpecWire == InitWire /\ [][NextWire]_vars

\* C31: serialization round-trips: to_bytes(sm) starts with the 4-byte magic
\* and try_from_bytes(to_bytes(sm)) is Some(sm); an input whose first 4 bytes
\* are not the magic yields None.
C31_SerializationRoundTrips ==
    /\ last.op = "to_bytes" =>
          /\ Slice(last.bytes, 0, 4) = HEADER_MAGIC
          /\ last.parsed = [kind |-> "some", message |-> Some(last.sm)]
    /\ (/\ last.op = "try_from_bytes"
        /\ Len(last.bytes) >= 4
        /\ Slice(last.bytes, 0, 4) # HEADER_MAGIC) =>
          last.parsed = [kind |-> "none", message |-> None]

\* C31 witness: a message whose contents take two bytes in UTF-8 came back
C31_Witness ==
    /\ last.op = "to_bytes"
    /\ last.sm.contents = << 233 >>
    /\ Len(last.bytes) = 4 + KEY_SIZE + 2
    /\ last.parsed.kind = "some"

(***************************************************************************)
(* The proxy (SpecProxy).  Alice's Messenger actor serves Hidden messages: *)
(* it seals the text for her correspondent, proves knowledge of her secret *)
(* key and sends hash, proof and sequenced message to the channel of the   *)
(* Proxy actor, which verifies the proof and publishes the sequenced       *)
(* message.  `tasks` holds the two actors and the channel between them.    *)
(***************************************************************************)
\* messages the channel of the proxy holds at most: mpsc::channel(24)
MaxQueue == 2

\* the parameters of the proving system: those of the proxy's verifying key,
\* or others
Params == {"pvk", "other"}

\* mutant: every proof passes
verify_any(proof, hash, vk) == TRUE

\* verify::verify: the Groth16 proof was made for this hash as public input,
\* under the parameters of the verifying key
verify(proof, hash, vk) == proof.hash = hash /\ proof.params = vk

\* the actors as Actor::start leaves them
ActorsStarted ==
    [ messenger |-> "serving", proxy |-> "serving", queue |-> << >>,
      sent |-> {}, called |-> {} ]

\* Messenger::start, Message::Hidden(correspondent, msg); params: what
\* read_params loaded.  encrypt(..).unwrap() ends the actor when the
\* correspondent is unknown; a send to a proxy that is gone is logged.
Hidden(cleartext, params) ==
    LET nonce == get_next_nonce(next_nonce["alice"], 0)
        hash == Sha256(<< Sha256(<< SecretOf("alice") >>) >>)
        msg == [ hash |-> hash,
                 preimage_proof |-> [hash |-> hash, params |-> params],
                 sequenced_message |->
                     [ sequence_hash |-> get_next_sequence_hash("alice", 0, next_nonce["alice"]),
                       ciphertext |-> encrypt(StreamChannel("alice", 0), nonce, cleartext) ] ]
    IN  /\ tasks.messenger = "serving"
        /\ nonce <= MaxFill
        /\ tasks.proxy = "done" \/ Len(tasks.queue) < MaxQueue \/ ~conversations["alice"]
        /\ tasks' = IF ~conversations["alice"]
                    THEN [tasks EXCEPT !.messenger = "panicked"]
                    ELSE IF tasks.proxy = "done"
                    THEN tasks
                    ELSE [tasks EXCEPT !.queue = Append(@, msg), !.sent = @ \cup {msg}]
        /\ UNCHANGED << repo_vars, block_timestamp_ms, conversations, next_nonce,
                        next_message, correspondent_map, watch, key_map, lock, monitor,
                        last, sealed, published, emitted >>

\* Proxy::start: the spawned task, a select! on receiver.recv() that is not in a
\* loop: the message received is verified and published, and the task ends
ProxyServe(rpc) ==
    LET message == Head(tasks.queue)
        passed == verify(message.preimage_proof, message.hash, "pvk")
    IN  /\ tasks.proxy = "serving"
        /\ tasks.queue # << >>
        /\ IF passed /\ rpc # "unsent"
           THEN ApplyPublish(message.sequenced_message.sequence_hash,
                             message.sequenced_message.ciphertext, TRUE)
           ELSE UNCHANGED << repo_vars, published >>
        /\ tasks' = [tasks EXCEPT
                        !.proxy = "done",
                        !.queue = << >>,
                        !.called = IF passed THEN @ \cup {message} ELSE @]
        /\ UNCHANGED << block_timestamp_ms, conversations, next_nonce, next_message,
                        correspondent_map, watch, key_map, lock, monitor, last, sealed,
                        emitted >>

InitProxy ==
    /\ messages = {}
    /\ current_aggregator = << >>
    /\ aggregator_history = << >>
    /\ block_timestamp_ms = 0
    /\ conversations = [p \in Parties |-> FALSE]
    /\ next_nonce = [p \in Parties |-> NoCounters]
    /\ next_message = [p \in Parties |-> NoLookahead]
    /\ watch = {}
    /\ last = Idle
    /\ sealed = {}
    /\ published = {}
    /\ emitted = [p \in Parties |-> << >>]
    /\ key_map = SyncedKeys
    /\ correspondent_map = NoDirectory
    /\ tasks = ActorsStarted
    /\ lock = [i \in StreamIndexes |-> Free]
    /\ monitor = NoMonitor

NextProxy ==
    \/ RegisterCorrespondent("alice", TRUE)
    \/ Tick
    \/ \E cleartext \in Cleartexts, params \in Params : Hidden(cleartext, params)
    \/ \E rpc \in {"ok", "lost", "unsent"} : ProxyServe(rpc)
    \/ CombinedNext("alice", {})

\* the runtime keeps running the task of the proxy
SpecProxy ==
    InitProxy /\ [][NextProxy]_vars /\ WF_vars(\E rpc \in {"ok", "lost", "unsent"} : ProxyServe(rpc))

\* the repository holds the sequenced message of m
Stored(m) ==
    \E e \in messages : /\ e.hash = m.sequenced_message.sequence_hash
                        /\ e.message = m.sequenced_message.ciphertext

\* the proof of m was made for the hash of m under the parameters of the
\* verifying key of the proxy
ProofIsSound(m) == m.preimage_proof.hash = m.hash /\ m.preimage_proof.params = "pvk"

\* C32: the proxy publishes a sequenced message only if its preimage proof
\* verifies against its hash: a message whose proof does not verify is never
\* handed to publish_message, and what the repository holds was sent with a
\* proof that verifies.
C32_OnlyVerifiedIsPublished ==
    /\ \A m \in tasks.called : ProofIsSound(m)
    /\ \A e \in messages :
          \E m \in tasks.sent : /\ Stored(m)
                                /\ m.sequenced_message.sequence_hash = e.hash
                                /\ ProofIsSound(m)

\* C32 witness: the proxy has served a message whose proof does not verify,
\* and nothing was published
C32_Witness ==
    /\ tasks.proxy = "done"
    /\ \E m \in tasks.sent : ~ProofIsSound(m)
    /\ tasks.called = {}
    /\ messages = {}

\* the messages the Messenger actor can send to the proxy
HiddenMessages ==
    { [ hash |-> Sha256(<< Sha256(<< SecretOf("alice") >>) >>),
        preimage_proof |-> [ hash |-> Sha256(<< Sha256(<< SecretOf("alice") >>) >>),
                             params |-> params ],
        sequenced_message |->
            [ sequence_hash |-> sequence_hash(StreamChannel("alice", 0), n),
              ciphertext |-> encrypt(StreamChannel("alice", 0), n, cleartext) ] ] :
      n \in 0..MaxFill, cleartext \in Cleartexts, params \in Params }

\* C39: every message with a valid proof that is sent to the channel of the
\* proxy is eventually published (publish_message is called for it): the proxy
\* keeps serving its channel after the first message.
C39_ValidMessagesArePublished ==
    \A m \in HiddenMessages :
        (m \in tasks.sent /\ ProofIsSound(m)) ~> (m \in tasks.called)

(***************************************************************************)
(* One caller drives Alice's combined stream while the repository is       *)
(* written (SpecDrive): Alice sends, and any account publishes a sealed or *)
(* a forged message to the slots of the receive stream, in any order, all  *)
(* in one block.                                                           *)
(***************************************************************************)
\* the conversation is registered and its combined stream is built
InitDrive ==
    /\ messages = {}
    /\ current_aggregator = << >>
    /\ aggregator_history = << >>
    /\ block_timestamp_ms = 0
    /\ conversations = [p \in Parties |-> p = "alice"]
    /\ next_nonce = [p \in Parties |-> NoCounters]
    /\ next_message = [p \in Parties |-> NoLookahead]
    /\ watch = {"emitted"}
    /\ last = Idle
    /\ sealed = {}
    /\ published = {}
    /\ emitted = [p \in Parties |-> << >>]
    /\ key_map = SyncedKeys
    /\ correspondent_map =
          [p \in Parties |-> DirectoryInsert({}, KeyOf(Peer(p)).key, Peer(p))]
    /\ NoTasks

NextDrive ==
    \/ /\ next_nonce["alice"][0] <= MaxFill
       /\ SendCall("alice", "dm 2", "ok")
    \/ \E n \in 0..MaxFill :
          \E message \in Payloads(1, n) : Publish(1, n, message, TRUE)
    \/ \E down \in SUBSET StreamIndexes : CombinedNext("alice", down)

SpecDrive == InitDrive /\ [][NextDrive]_vars

\* the messages next() has emitted from stream i, in the order of emission
EmittedOf(i) == SelectSeq(emitted["alice"], LAMBDA e : e.index = i)

Blocked(i) ==
    LET channel == StreamChannel("alice", i)
        seq == next_nonce["alice"][i]
        slot == get_message(messages, sequence_hash(channel, seq))
    IN  /\ next_message["alice"][i] = None
        /\ IsSome(slot)
        /\ ~decrypt(channel, seq, Unwrap(slot).message).ok

\* C35: a stream that stands at a ciphertext that does not authenticate stays
\* there for good: receive_next returns the authentication error in every
\* later state, the slot keeps its contents, the counter does not move, and no
\* further message of the stream is emitted.
C35_ForgedSlotBlocksForGood ==
    /\ [](\A i \in StreamIndexes :
            Blocked(i) =>
               LET r == receive_next("alice", i, next_nonce["alice"], messages, TRUE)
               IN  r.kind = "err" /\ r.error = "aead"
                      /\ r.next_nonce = next_nonce["alice"])
    /\ [][ \A i \in StreamIndexes :
              Blocked(i) =>
                 /\ Blocked(i)'
                 /\ next_nonce'["alice"][i] = next_nonce["alice"][i]
                 /\ EmittedOf(i)' = EmittedOf(i)
                 /\ get_message(messages', sequence_hash(StreamChannel("alice", i),
                                                         next_nonce["alice"][i]))
                      = get_message(messages, sequence_hash(StreamChannel("alice", i),
                                                            next_nonce["alice"][i])) ]_vars

\* C35 witness: the receive stream stands at the forged slot 0 while slot 1
\* holds a message that opens, and next() has polled: the send stream holds its
\* lookahead
C35_Witness ==
    /\ Blocked(1)
    /\ next_nonce["alice"][1] = 0
    /\ get_message(messages, sequence_hash(StreamChannel("alice", 1), 1))
          = Some([ message |-> encrypt(StreamChannel("alice", 1), 1, "dm 1"),
                   block_timestamp_ms |-> 0 ])
    /\ IsSome(next_message["alice"][0])
    /\ EmittedOf(1) = << >>

(***************************************************************************)
(* The combined stream with one stream out of reach (SpecFailing): the     *)
(* view calls of one stream of Alice, the same for the whole run, fail on  *)
(* every call, while messages are stored in both streams.                  *)
(***************************************************************************)
\* the stream whose receive_next fails on every call
Failing == tasks.failing

InitFailing ==
    /\ messages = {}
    /\ current_aggregator = << >>
    /\ aggregator_history = << >>
    /\ block_timestamp_ms = 0
    /\ conversations = [p \in Parties |-> p = "alice"]
    /\ next_nonce = [p \in Parties |-> NoCounters]
    /\ next_message = [p \in Parties |-> NoLookahead]
    /\ watch = {"next", "emitted"}
    /\ last = Idle
    /\ sealed = {}
    /\ published = {}
    /\ emitted = [p \in Parties |-> << >>]
    /\ key_map = SyncedKeys
    /\ correspondent_map =
          [p \in Parties |-> DirectoryInsert({}, KeyOf(Peer(p)).key, Peer(p))]
    /\ \E i \in StreamIndexes : tasks = [failing |-> i]
    /\ lock = [i \in StreamIndexes |-> Free]
    /\ monitor = NoMonitor

NextFailing ==
    \/ Tick
    \/ \E i \in StreamIndexes, n \in 0..MaxNonce :
          \E message \in Payloads(i, n) : Publish(i, n, message, TRUE)
    \/ \E down \in SUBSET StreamIndexes :
          /\ Failing \in down
          /\ CombinedNext("alice", down)

SpecFailing == InitFailing /\ [][NextFailing]_vars

\* C36: while the receive_next of one stream fails on every call, every
\* next() returns an error and polls no stream after the one that failed, and
\* no message is ever emitted, whatever the other stream stores or holds.
C36_OneFailingStreamStopsAll ==
    /\ emitted["alice"] = << >>
    /\ last.op = "next" =>
          /\ last.result = "err"
          /\ \E i \in StreamIndexes :
                /\ i <= Failing
                /\ last.polls[i].kind = "err"
                /\ \A j \in StreamIndexes : j > i => last.polls[j] = NotPolled

\* C36 witness: the receive stream fails, its slot 0 holds a message, and a
\* next() that found the lookahead of the send stream populated returned the
\* error
C36_Witness ==
    /\ Failing = 1
    /\ last.op = "next"
    /\ last.result = "err"
    /\ last.polls[0] = NotPolled
    /\ IsSome(next_message["alice"][0])
    /\ last.polls[1].kind = "err"
    /\ IsSome(get_message(messages, sequence_hash(StreamChannel("alice", 1), 0)))

(***************************************************************************)
(* The repository at the turn of an aggregator (SpecArchive).  The         *)
(* contract already stores the messages of other conversations, one short  *)
(* of AGGREGATOR_CAPACITY, all in the current aggregator; accounts then    *)
(* publish to the slots of Alice's send stream and read the aggregators.   *)
(***************************************************************************)
\* the sequence hash of the k-th message of the other conversations
OtherHash(k) == [digest |-> << k >>]

InitArchive ==
    /\ messages = { [ hash               |-> OtherHash(k),
                      message            |-> Forged(1, 0),
                      block_timestamp_ms |-> 0 ] : k \in 1..(AGGREGATOR_CAPACITY - 1) }
    /\ current_aggregator = [k \in 1..(AGGREGATOR_CAPACITY - 1) |-> OtherHash(k)]
    /\ aggregator_history = << >>
    /\ block_timestamp_ms = 0
    /\ conversations = [p \in Parties |-> FALSE]
    /\ next_nonce = [p \in Parties |-> NoCounters]
    /\ next_message = [p \in Parties |-> NoLookahead]
    /\ watch = {"get_aggregators_since"}
    /\ last = Idle
    /\ sealed = {}
    /\ published = {}
    /\ emitted = [p \in Parties |-> << >>]
    /\ key_map = SyncedKeys
    /\ correspondent_map = NoDirectory
    /\ NoTasks

\* the map_while over the reversed history: the aggregators of the newest
\* records, up to the first whose end is not before t
RECURSIVE newest_ended_before(_, _)
newest_ended_before(hist, t) ==
    IF hist = << >> THEN << >>
    ELSE IF t > hist[Len(hist)].end_block_timestamp_ms
    THEN << hist[Len(hist)].aggregator >>
            \o newest_ended_before(SubSeq(hist, 1, Len(hist) - 1), t)
    ELSE << >>

\* MessageRepository::get_aggregators_since
get_aggregators_since(hist, cur, t) == Append(newest_ended_before(hist, t), cur)

\* a view call of get_aggregators_since(t)
GetAggregatorsSince(t) ==
    /\ last' = Observed("get_aggregators_since",
                 [op |-> "get_aggregators_since", block_timestamp_ms |-> t,
                  result |-> get_aggregators_since(aggregator_history,
                                                   current_aggregator, t)])
    /\ UNCHANGED << repo_vars, block_timestamp_ms, conversations, next_nonce,
                    next_message, correspondent_map, rest_vars, sealed, published,
                    emitted >>

NextArchive ==
    \/ Tick
    \/ \E n \in 0..MaxFill, funded \in BOOLEAN :
          \E message \in Payloads(0, n) : Publish(0, n, message, funded)
    \/ \E t \in 0..MaxTime : GetAggregatorsSince(t)

SpecArchive == InitArchive /\ [][NextArchive]_vars

\* the entries held by the archived aggregators
RECURSIVE ArchivedEntries(_)
ArchivedEntries(hist) ==
    IF hist = << >> THEN 0
    ELSE Len(Head(hist).aggregator) + ArchivedEntries(Tail(hist))

\* C37: the current aggregator never holds more than AGGREGATOR_CAPACITY
\* entries, the entries of the archived and the current aggregators are as many
\* as the stored messages, and a publish that finds the current aggregator full
\* archives it under the block timestamp and adds its hash to a fresh one.
C37_AggregatorsRollOver ==
    /\ [](/\ Len(current_aggregator) <= AGGREGATOR_CAPACITY
          /\ \A k \in DOMAIN aggregator_history :
                Len(aggregator_history[k].aggregator) = AGGREGATOR_CAPACITY
          /\ ArchivedEntries(aggregator_history) + Len(current_aggregator)
                = Cardinality(messages))
    /\ [][ /\ aggregator_history' # aggregator_history =>
                /\ Len(current_aggregator) = AGGREGATOR_CAPACITY
                /\ aggregator_history' =
                      Append(aggregator_history,
                             [ end_block_timestamp_ms |-> block_timestamp_ms,
                               aggregator |-> current_aggregator ])
                /\ Len(current_aggregator') = 1
           /\ (messages' # messages /\ Len(current_aggregator) = AGGREGATOR_CAPACITY) =>
                aggregator_history' # aggregator_history
           /\ messages' # messages =>
                \E e \in messages' \ messages :
                    current_aggregator'[Len(current_aggregator')] = e.hash ]_vars

\* C37 witness: a full aggregator is in the history, archived at time 1, and the
\* fresh one holds the hash published then
C37_Witness ==
    /\ Len(aggregator_history) = 1
    /\ aggregator_history[1].end_block_timestamp_ms = 1
    /\ Len(aggregator_history[1].aggregator) = AGGREGATOR_CAPACITY
    /\ Len(current_aggregator) = 1
    /\ \E e \in messages :
          e.hash = current_aggregator[1] /\ e.block_timestamp_ms = 1

\* C38: get_aggregators_since(t) returns the aggregators of exactly the archived
\* records whose end_block_timestamp_ms is at least t, and then the current
\* aggregator, so that every sequence hash published at or after t is in one of
\* the aggregators returned.
C38_ReturnsAggregatorsSince ==
    last.op = "get_aggregators_since" =>
        LET t == last.block_timestamp_ms
            n == Len(last.result)
        IN  /\ n >= 1
            /\ last.result[n] = current_aggregator
            /\ {last.result[k] : k \in 1..(n - 1)} =
                  {aggregator_history[k].aggregator :
                      k \in {j \in DOMAIN aggregator_history :
                                aggregator_history[j].end_block_timestamp_ms >= t}}
            /\ \A e \in messages :
                  e.block_timestamp_ms >= t =>
                      \E k \in 1..n : \E j \in 1..Len(last.result[k]) :
                          last.result[k][j] = e.hash

(***************************************************************************)
(* Groups.  A member is its CorrespondentId (a public key); every member   *)
(* builds its own Group object from the others, the shared secret and a    *)
(* context.                                                                *)
(***************************************************************************)
\* the largest CorrespondentId of a group member
MaxMember == 3
\* the largest logical index the lane properties are compared at
MaxIndex == 2

MemberIds == 1..MaxMember
GroupSecrets == {5, 7}
Contexts == {"chat", "work"}

Range(seq) == {seq[k] : k \in 1..Len(seq)}

\* Vec::sort, by insertion
RECURSIVE SortedInsert(_, _)
SortedInsert(seq, x) ==
    IF seq = << >> THEN << x >>
    ELSE IF x <= Head(seq) THEN << x >> \o seq
    ELSE << Head(seq) >> \o SortedInsert(Tail(seq), x)

RECURSIVE sort(_)
sort(seq) == IF seq = << >> THEN << >> ELSE SortedInsert(sort(Tail(seq)), Head(seq))

\* iter().position(|m| m == x), counted from 0
position(seq, x) ==
    (CHOOSE k \in 1..Len(seq) : seq[k] = x /\ \A j \in 1..(k - 1) : seq[j] # x) - 1

\* mutant: the members are hashed in the order they were listed in
GroupNewUnsorted(send_messages_from_member, other_members, shared_secret, context) ==
    LET members == Append(other_members, send_messages_from_member)
    IN  [ members |-> members,
          send_messages_from_member_index |-> position(members, send_messages_from_member),
          next_message_index |-> [i \in 0..(Len(members) - 1) |-> i],
          shared_secret |-> shared_secret,
          identifier |-> << Sha256(members), 0, shared_secret, Sha256(context),
                            0, 0, 0, 0 >> ]

\* Group::new: members sorted, identifier = SHA256(members) at bytes 0..32, the
\* secret at 64..96, SHA256(context) at 96..128; next_message_index[i] = i
GroupNew(send_messages_from_member, other_members, shared_secret, context) ==
    LET members == sort(Append(other_members, send_messages_from_member))
    IN  [ members |-> members,
          send_messages_from_member_index |-> position(members, send_messages_from_member),
          next_message_index |-> [i \in 0..(Len(members) - 1) |-> i],
          shared_secret |-> shared_secret,
          identifier |-> << Sha256(members), 0, shared_secret, Sha256(context),
                            0, 0, 0, 0 >> ]

\* mutant: the lanes are not strided by the number of members
get_nonce_for_message_dense(g, message_index, correspondent_index) ==
    message_index + correspondent_index

\* Group::get_nonce_for_message
get_nonce_for_message(g, message_index, correspondent_index) ==
    Len(g.members) * message_index + correspondent_index

\* the nonce Group::send reads for the message it sends
GroupSendNonce(g) ==
    get_nonce_for_message(g, g.next_message_index[g.send_messages_from_member_index],
                          g.send_messages_from_member_index)

\* the nonce Group::receive_next_for reads for lane correspondent_index
GroupPollNonce(g, correspondent_index) ==
    get_nonce_for_message(g, g.next_message_index[correspondent_index], correspondent_index)

\* the ways of listing the other members of a group of at least two
RECURSIVE Listings(_)
Listings(S) ==
    IF S = {} THEN {<< >>}
    ELSE UNION {{Append(l, x) : l \in Listings(S \ {x})} : x \in S}

OtherMembers(me) ==
    UNION {Listings(S) : S \in (SUBSET (MemberIds \ {me})) \ {{}}}

\* the arguments of Group::new
GroupArgs ==
    UNION {[ me : {me}, others : OtherMembers(me), secret : GroupSecrets,
             context : Contexts ] : me \in MemberIds}

GroupOf(a) == GroupNew(a.me, a.others, a.secret, a.context)

(***************************************************************************)
(* Properties of send (checked under SpecSend).                            *)
(***************************************************************************)
\* C1: no seq is used twice for encryption on one stream: two different
\* plaintexts are never sealed under the same (channel, seq), whatever polls
\* of the conversation happen between the sends.
C1_NoSeqSealedTwice ==
    \A x \in sealed, y \in sealed :
        (x.channel = y.channel /\ x.seq = y.seq) => x.cleartext = y.cleartext

\* C2: a successful send strictly increases the counter of the send stream, and
\* a send that fails leaves it unchanged.
C2_SendAdvancesCounter ==
    (last.op = "send" /\ last.error # "unknown recipient") =>
        /\ last.result = "ok" => next_nonce[last.party][0] > last.nonce
        /\ last.result = "err" => next_nonce[last.party][0] = last.nonce

\* the last operation was a send whose publish transaction found its slot
\* occupied, and the outcome of the transaction came back
SendFoundSlotOccupied ==
    /\ last.op = "send"
    /\ last.error = ""
    /\ last.occupied

\* C11: a send retried after its put already landed (the slot holds the very
\* ciphertext the send publishes) returns success and advances the counter of
\* the send stream to seq + 1.
C11_RetryCountsAsSent ==
    (/\ SendFoundSlotOccupied
     /\ Unwrap(get_message(messages, last.sequence_hash)).message = last.ciphertext) =>
        /\ last.result = "ok"
        /\ next_nonce[last.party][0] = last.nonce + 1

\* C12: a send that is not a retry (the slot holds another ciphertext) and whose
\* publish is rejected because the slot is occupied reports a failure.
C12_CollisionIsReported ==
    (/\ SendFoundSlotOccupied
     /\ Unwrap(get_message(messages, last.sequence_hash)).message # last.ciphertext) =>
        last.result = "err"

(***************************************************************************)
(* Properties of receive_next and of next (checked under Spec).            *)
(***************************************************************************)
\* the slot that stream i of the party of the last next() was polled at
PolledSlot(i) ==
    get_message(messages, sequence_hash(StreamChannel(last.party, i), last.polls[i].nonce))

\* the last next() polled stream i and the repository answered
Answered(i) ==
    /\ last.op = "next"
    /\ last.polls[i].kind # "skip"
    /\ last.polls[i].error # "rpc"

\* C3: receive_next at an empty slot returns None and leaves the counter where
\* it was, on every call; at a slot that holds a sealed message it returns that
\* message with its timestamp and advances the counter by one.
C3_ReceiveNextFollowsSlot ==
    \A i \in StreamIndexes :
        Answered(i) =>
            LET poll == last.polls[i]
                slot == PolledSlot(i)
                channel == StreamChannel(last.party, i)
            IN  /\ ~IsSome(slot) =>
                      /\ poll.kind = "none"
                      /\ poll.message = None
                      /\ next_nonce[last.party][i] = poll.nonce
                /\ \A m \in Cleartexts :
                      (IsSome(slot) /\ Unwrap(slot).message = encrypt(channel, poll.nonce, m)) =>
                          /\ poll.kind = "some"
                          /\ poll.message =
                                Some([ message |-> m,
                                       block_timestamp_ms |-> Unwrap(slot).block_timestamp_ms ])
                          /\ next_nonce[last.party][i] = poll.nonce + 1

\* C3 witness: one next() found the peer's message on the receive stream and an
\* empty slot on the send stream
C3_Witness ==
    /\ Answered(0) /\ Answered(1)
    /\ last.polls[0].kind = "none"
    /\ last.polls[1].kind = "some"
    /\ next_nonce[last.party] = [i \in StreamIndexes |-> i]

\* C4: when the ciphertext at the current slot fails authentication,
\* receive_next returns an error and the counter stays at the seq of that slot.
C4_ForgeryDoesNotAdvance ==
    \A i \in StreamIndexes :
        (/\ Answered(i)
         /\ IsSome(PolledSlot(i))
         /\ ~decrypt(StreamChannel(last.party, i), last.polls[i].nonce,
                     Unwrap(PolledSlot(i)).message).ok) =>
            /\ last.polls[i].kind = "err"
            /\ last.polls[i].error = "aead"
            /\ last.result = "err"
            /\ next_nonce[last.party][i] = last.polls[i].nonce

\* C4 witness: a next() whose poll of the receive stream met a forged ciphertext
C4_Witness ==
    /\ Answered(1)
    /\ IsSome(PolledSlot(1))
    /\ last.polls[1].error = "aead"
    /\ last.polls[0].kind = "none"

\* C6: when several streams hold lookahead messages with the same lowest
\* timestamp, next() emits the message of the stream with the lowest index.
C6_LowerIndexWinsTie ==
    (last.op = "next" /\ last.result = "some") =>
        \A i \in StreamIndexes :
            (/\ IsSome(last.held[i])
             /\ Unwrap(last.held[i]).block_timestamp_ms = last.out.block_timestamp_ms) =>
                last.out.index <= i

\* C19 as stated: when receive_next of a stream fails during next(), next()
\* returns the error, the lookahead of that stream stays empty, and the
\* following next() call polls that stream again.
C19_FailedStreamIsPolledAgain ==
    [][ last'.op = "next" =>
          \A i \in StreamIndexes :
             /\ last'.polls[i].kind = "err" =>
                   /\ last'.result = "err"
                   /\ next_message'[last'.party][i] = None
             /\ (last.op = "next" /\ last.party = last'.party
                    /\ last.polls[i].kind = "err") =>
                   last'.polls[i].kind # "skip" ]_vars

\* C19 amended: the same, but the following next() call polls the stream again
\* only if it does not return the error of an earlier stream first.
C19_FailedStreamIsRetried ==
    [][ last'.op = "next" =>
          \A i \in StreamIndexes :
             /\ last'.polls[i].kind = "err" =>
                   /\ last'.result = "err"
                   /\ next_message'[last'.party][i] = None
             /\ (last.op = "next" /\ last.party = last'.party
                    /\ last.polls[i].kind = "err") =>
                   \/ last'.polls[i].kind # "skip"
                   \/ \E j \in StreamIndexes : j < i /\ last'.polls[j].kind = "err" ]_vars

\* C19 witness: next() returned the error of the view call of the receive
\* stream, whose slot holds a ciphertext, and the lookahead of the stream is empty
C19_Witness ==
    /\ last.op = "next"
    /\ last.result = "err"
    /\ last.polls[0].kind = "none"
    /\ last.polls[1].error = "rpc"
    /\ IsSome(PolledSlot(1))
    /\ next_message[last.party][1] = None

\* C20: the streams of a peer are built once per session: registering a peer
\* that already has a conversation keeps its streams, so the counters of the
\* send and of the receive stream are never reset.
C20_CountersAreNeverReset ==
    [][ \A p \in Parties, i \in StreamIndexes :
          conversations[p] => next_nonce'[p][i] >= next_nonce[p][i] ]_vars

(***************************************************************************)
(* Delivery between two messengers that both run a combined stream         *)
(* (checked under SpecDeliver).                                            *)
(***************************************************************************)
NextDeliver ==
    \/ \E p \in Parties, rpc_ok \in BOOLEAN : RegisterCorrespondent(p, rpc_ok)
    \/ Tick
    \/ \E p \in Parties, m \in Cleartexts, rpc \in {"ok", "lost", "unsent"} : Send(p, m, rpc)
    \/ \E p \in Parties, down \in SUBSET StreamIndexes : CombinedNext(p, down)

SpecDeliver == Init /\ [][NextDeliver]_vars

\* Alice's send of m is stored at seq 0 and is the only message of the conversation
OnlyAliceSent(m) ==
    /\ get_message(messages, sequence_hash(StreamChannel("alice", 0), 0)) # None
    /\ Unwrap(get_message(messages, sequence_hash(StreamChannel("alice", 0), 0))).message
          = encrypt(StreamChannel("alice", 0), 0, m)
    /\ ~contains_key(messages, sequence_hash(StreamChannel("bob", 0), 0))

\* party p has registered its peer and its combined stream has read nothing yet
NothingRead(p) ==
    /\ conversations[p]
    /\ next_nonce[p] = NoCounters
    /\ next_message[p] = NoLookahead

\* the last operation was a next() of p in which no view call failed
NextAnswered(p) ==
    /\ last.op = "next"
    /\ last.party = p
    /\ \A i \in StreamIndexes : last.polls[i].error # "rpc"

StoredStamps == {e.block_timestamp_ms : e \in messages}

\* C5: with every message stored before the first poll, under distinct
\* timestamps that increase with seq in each stream, next() emits the messages
\* in ascending timestamp order, each as stored, and returns None only after
\* the last of them.
C5_EmitsInTimestampOrder ==
    \A p \in Pollers :
        /\ Len(emitted[p]) <= Cardinality(messages)
        /\ \A j \in 1..Len(emitted[p]) :
              LET e == emitted[p][j]
              IN  /\ e.block_timestamp_ms = Nth(StoredStamps, j - 1)
                  /\ \E s \in messages, n \in 0..MaxStored :
                        /\ s.block_timestamp_ms = e.block_timestamp_ms
                        /\ s.hash = sequence_hash(StreamChannel(p, e.index), n)
                        /\ s.message = encrypt(StreamChannel(p, e.index), n, e.message)
        /\ (last.op = "next" /\ last.party = p /\ last.result = "none") =>
              Len(emitted[p]) = Cardinality(messages)

\* C5 witness: all of four messages emitted, the streams taking turns, and next()
\* has returned None
C5_Witness ==
    /\ last.op = "next" /\ last.result = "none"
    /\ Cardinality(messages) = NumStreams * MaxStored
    /\ Len(emitted[last.party]) = Cardinality(messages)
    /\ emitted[last.party][1].index = 1
    /\ emitted[last.party][2].index = 0
    /\ emitted[last.party][3].index = 1

\* C18: a next() call polls only the streams whose lookahead is empty, each at
\* most once; a lookahead that is not selected is kept as it is, and the call
\* that emits a message empties the lookahead of the selected stream and of no
\* other.
C18_LookaheadsAreKept ==
    [][ last'.op = "next" =>
          \A i \in StreamIndexes :
             LET p == last'.party
                 selected == last'.result = "some" /\ last'.out.index = i
             IN  /\ IsSome(next_message[p][i]) => last'.polls[i].kind = "skip"
                 /\ next_nonce'[p][i] \in {next_nonce[p][i], next_nonce[p][i] + 1}
                 /\ (IsSome(next_message[p][i]) /\ ~selected) =>
                       next_message'[p][i] = next_message[p][i]
                 /\ selected =>
                       /\ next_message'[p][i] = None
                       /\ \A j \in StreamIndexes \ {i} :
                             next_message'[p][j] = last'.held[j] ]_vars

\* C18 witness: a next() emitted from one stream while the other kept, without
\* being polled, the lookahead an earlier call had filled
C18_Witness ==
    /\ last.op = "next"
    /\ last.result = "some"
    /\ \E i \in StreamIndexes \ {last.out.index} :
          /\ last.polls[i].kind = "skip"
          /\ IsSome(next_message[last.party][i])
          /\ next_message[last.party][i] = last.held[i]
    /\ next_message[last.party][last.out.index] = None

(***************************************************************************)
(* Properties of the channels (checked under SpecChan).                    *)
(***************************************************************************)
\* C7: the slot address of A's send channel equals that of B's receive channel
\* at the same seq, and B's send equals A's receive; at different seqs the
\* addresses differ.
C7_AddressAgreement ==
    last.op = "agree" =>
        /\ last.alice_send_s = last.bob_recv_s
        /\ last.bob_send_s = last.alice_recv_s
        /\ last.s # last.t =>
              /\ last.alice_send_s # last.bob_recv_t
              /\ last.bob_send_s # last.alice_recv_t

\* C7 witness: two different parties compared at two different seqs
C7_Witness ==
    /\ last.op = "agree"
    /\ last.alice # last.bob
    /\ last.s = MaxSeq /\ last.t = 0
    /\ last.alice_send_s = last.bob_recv_s

\* C8 as stated: for every local secret, every remote public key and every seq,
\* the send and the receive channel have different identifiers and different
\* slot addresses.
C8_DirectionsDisjoint ==
    last.op = "pair" =>
        /\ last.send_identifier # last.recv_identifier
        /\ last.send_hash # last.recv_hash

\* C8 amended: the same, for every remote public key other than the public key
\* of the local secret.
C8_DirectionsDisjointForPeer ==
    (last.op = "pair" /\ last.remote_public_key # PublicKeyFrom(last.local_secret)) =>
        /\ last.send_identifier # last.recv_identifier
        /\ last.send_hash # last.recv_hash

\* C8 witness: a pairing with another party's key, at a seq other than 0
C8_Witness ==
    /\ last.op = "pair"
    /\ last.remote_public_key = PublicKeyFrom(2)
    /\ last.local_secret = 1
    /\ last.seq = MaxSeq
    /\ last.send_hash # last.recv_hash

\* C9: decrypt at seq returns what encrypt at seq sealed, on the channel that
\* sealed it and on the peer's receive channel.
C9_RoundTrip ==
    last.op = "seal" =>
        /\ last.own_open = [ok |-> TRUE, cleartext |-> last.cleartext]
        /\ last.peer_open = [ok |-> TRUE, cleartext |-> last.cleartext]

\* C9 witness: the peer opened, at a seq other than 0, what another party sealed
C9_Witness ==
    /\ last.op = "seal"
    /\ last.alice # last.bob
    /\ last.s = MaxSeq
    /\ last.peer_open.ok
    /\ last.peer_open.cleartext = "dm 2"

(***************************************************************************)
(* The repository (checked under SpecRepo).                                *)
(***************************************************************************)
\* C10: the repository is write-once per slot: a publish to a hash that holds a
\* message changes nothing, and get_message returns the message and the
\* timestamp of the first publish to the hash that went through.
C10_WriteOncePerSlot ==
    /\ \A e \in published :
          get_message(messages, e.hash) =
              Some([ message |-> e.message, block_timestamp_ms |-> e.block_timestamp_ms ])
    /\ \A x \in messages, y \in messages : x.hash = y.hash => x = y
    /\ \A x \in messages : contains_key(published, x.hash)
    /\ (last.op = "publish" /\ IsSome(last.before)) =>
          /\ last.unchanged
          /\ get_message(messages, last.sequence_hash) = last.before

\* C10 witness: a funded publish of another message, in a later block, to a slot
\* that holds one
C10_Witness ==
    /\ last.op = "publish"
    /\ last.funded
    /\ IsSome(last.before)
    /\ Unwrap(last.before).message # last.message
    /\ Unwrap(last.before).block_timestamp_ms < last.now
    /\ last.unchanged

(***************************************************************************)
(* Group construction (checked under SpecGroupNew): two calls of           *)
(* Group::new, on arguments drawn by the initial state.                    *)
(***************************************************************************)
InitGroupNew ==
    /\ messages = {}
    /\ current_aggregator = << >>
    /\ aggregator_history = << >>
    /\ block_timestamp_ms = 0
    /\ conversations = [p \in Parties |-> FALSE]
    /\ next_nonce = [p \in Parties |-> NoCounters]
    /\ next_message = [p \in Parties |-> NoLookahead]
    /\ watch = {}
    /\ last \in [ op : {"args"}, a : GroupArgs, b : GroupArgs ]
    /\ sealed = {}
    /\ published = {}
    /\ emitted = [p \in Parties |-> << >>]
    /\ key_map = SyncedKeys
    /\ correspondent_map = NoDirectory
    /\ NoTasks

NewGroups ==
    /\ last.op = "args"
    /\ last' = [ op |-> "groups", a |-> last.a, b |-> last.b,
                 ga |-> GroupOf(last.a), gb |-> GroupOf(last.b) ]
    /\ UNCHANGED << repo_vars, block_timestamp_ms, conversations, next_nonce,
                    next_message, correspondent_map, rest_vars, sealed, published, emitted >>

SpecGroupNew == InitGroupNew /\ [][NewGroups]_vars

\* the two calls name the same members, secret and context
SameSetup(a, b) ==
    /\ Range(a.others) \cup {a.me} = Range(b.others) \cup {b.me}
    /\ a.secret = b.secret
    /\ a.context = b.context

\* C16: the identifier of a group, and so every slot address, depends only on
\* the set of members, the secret and the context: listing the members in any
\* order gives the same identifier and the same canonical indices, and another
\* member set, secret or context gives another identifier.
C16_IdentifierOfTheSetup ==
    last.op = "groups" =>
        IF SameSetup(last.a, last.b)
        THEN /\ last.ga.identifier = last.gb.identifier
             /\ last.ga.members = last.gb.members
             /\ \A n \in 0..MaxIndex : sequence_hash(last.ga, n) = sequence_hash(last.gb, n)
        ELSE /\ last.ga.identifier # last.gb.identifier
             /\ \A n \in 0..MaxIndex : sequence_hash(last.ga, n) # sequence_hash(last.gb, n)

\* C16 witness: two members of a group of three, each listing the others in
\* its own order, built the same group
C16_Witness ==
    /\ last.op = "groups"
    /\ last.a.me = 1 /\ last.a.others = << 3, 2 >>
    /\ last.b.me = 3 /\ last.b.others = << 1, 2 >>
    /\ last.a.secret = last.b.secret /\ last.a.context = last.b.context
    /\ last.ga.members = << 1, 2, 3 >>
    /\ last.ga.send_messages_from_member_index = 0
    /\ last.gb.send_messages_from_member_index = 2
    /\ last.ga.identifier = last.gb.identifier

(***************************************************************************)
(* The lanes of a group (checked under SpecLanes): the initial state draws *)
(* the arguments of Group::new, the actions compute seqs in that group.    *)
(***************************************************************************)
InitLanes ==
    /\ messages = {}
    /\ current_aggregator = << >>
    /\ aggregator_history = << >>
    /\ block_timestamp_ms = 0
    /\ conversations = [p \in Parties |-> FALSE]
    /\ next_nonce = [p \in Parties |-> NoCounters]
    /\ next_message = [p \in Parties |-> NoLookahead]
    /\ watch = {}
    /\ last \in [ op : {"args"}, a : GroupArgs ]
    /\ sealed = {}
    /\ published = {}
    /\ emitted = [p \in Parties |-> << >>]
    /\ key_map = SyncedKeys
    /\ correspondent_map = NoDirectory
    /\ NoTasks

\* the seqs of logical index j of member i and of logical index j2 of member i2
Lanes(i, j, i2, j2) ==
    /\ last.op = "args"
    /\ LET g == GroupOf(last.a)
       IN  /\ i < Len(g.members) /\ i2 < Len(g.members)
           /\ last' = [ op |-> "lanes", members |-> g.members,
                        i |-> i, j |-> j, i2 |-> i2, j2 |-> j2,
                        seq |-> get_nonce_for_message(g, j, i),
                        seq2 |-> get_nonce_for_message(g, j2, i2) ]
    /\ UNCHANGED << repo_vars, block_timestamp_ms, conversations, next_nonce,
                    next_message, correspondent_map, rest_vars, sealed, published, emitted >>

\* the seq of the first Group::send of the new group and the seqs of its first
\* Group::receive_next_for of every lane
FirstUse ==
    /\ last.op = "args"
    /\ LET g == GroupOf(last.a)
       IN  last' = [ op |-> "first", members |-> g.members,
                     index |-> g.send_messages_from_member_index,
                     send_seq |-> GroupSendNonce(g),
                     poll_seq |-> [k \in 0..(Len(g.members) - 1) |-> GroupPollNonce(g, k)] ]
    /\ UNCHANGED << repo_vars, block_timestamp_ms, conversations, next_nonce,
                    next_message, correspondent_map, rest_vars, sealed, published, emitted >>

NextLanes ==
    \/ \E i \in 0..(MaxMember - 1), i2 \in 0..(MaxMember - 1),
          j \in 0..MaxIndex, j2 \in 0..MaxIndex : Lanes(i, j, i2, j2)
    \/ FirstUse

SpecLanes == InitLanes /\ [][NextLanes]_vars

\* C14: the seqs n*j+i of the members i in [0,n) at the logical indices j are
\* pairwise distinct, so no two members use the same seq.
C14_LanesAreDisjoint ==
    last.op = "lanes" =>
        /\ (last.i # last.i2 \/ last.j # last.j2) => last.seq # last.seq2
        /\ last.seq % Len(last.members) = last.i

\* C14 witness: in a group of three, a member at its highest logical index
\* compared with the next member at a lower one
C14_Witness ==
    /\ last.op = "lanes"
    /\ Len(last.members) = 3
    /\ last.i = 0 /\ last.j = MaxIndex
    /\ last.i2 = 1 /\ last.j2 = MaxIndex - 1
    /\ last.seq # last.seq2

\* C15: in a new group every lane starts at logical index 0: the first message
\* of the member at canonical index i uses seq = i, and the first poll of lane k
\* reads seq = k.
C15_LanesStartAtZero ==
    last.op = "first" =>
        /\ last.send_seq = last.index
        /\ \A k \in DOMAIN last.poll_seq : last.poll_seq[k] = k

(***************************************************************************)
(* A group of three over the repository (SpecGroup).  One member, the      *)
(* reader, runs a combined stream over the lanes of the group; every       *)
(* member sends, and any account may publish to the slots of the lanes.    *)
(* next_nonce and next_message hold the reader's next_message_index and    *)
(* the lookaheads of its combined stream.                                  *)
(***************************************************************************)
\* the lanes are read at most this many logical indices deep
MaxLaneDepth == 1

GroupReader == 2
GroupIds == {1, 2, 3}
\* the Group object member m builds, before it has received anything
GroupMember(m) ==
    GroupNew(m, CHOOSE l \in Listings(GroupIds \ {m}) : TRUE, 5, "chat")

\* the reader's Group object as Group::new built it, and with its current
\* next_message_index
NewReaderGroup == GroupMember(GroupReader)
ReaderGroup(idx) == [NewReaderGroup EXCEPT !.next_message_index = idx]
LaneIndexes == 0..(Len(NewReaderGroup.members) - 1)

\* mutant: receiving on a lane advances the logical index of every lane
receive_next_for_all(g, correspondent_index, msgs, rpc_ok) ==
    LET nonce == GroupPollNonce(g, correspondent_index)
        response == get_message(msgs, sequence_hash(g, nonce))
        opened == decrypt(g, nonce, Unwrap(response).message)
    IN  IF ~rpc_ok
        THEN [kind |-> "err", error |-> "rpc", nonce |-> nonce, message |-> None,
              next_message_index |-> g.next_message_index]
        ELSE IF ~IsSome(response)
        THEN [kind |-> "none", error |-> "", nonce |-> nonce, message |-> None,
              next_message_index |-> g.next_message_index]
        ELSE IF ~opened.ok
        THEN [kind |-> "err", error |-> "aead", nonce |-> nonce, message |-> None,
              next_message_index |-> g.next_message_index]
        ELSE [kind |-> "some", error |-> "", nonce |-> nonce,
              message |-> Some([ message |-> opened.cleartext,
                                 block_timestamp_ms |-> Unwrap(response).block_timestamp_ms ]),
              next_message_index |->
                  [k \in DOMAIN g.next_message_index |-> g.next_message_index[k] + 1]]

\* Group::receive_next_for
receive_next_for(g, correspondent_index, msgs, rpc_ok) ==
    LET nonce == GroupPollNonce(g, correspondent_index)
        response == get_message(msgs, sequence_hash(g, nonce))
        opened == decrypt(g, nonce, Unwrap(response).message)
    IN  IF ~rpc_ok
        THEN [kind |-> "err", error |-> "rpc", nonce |-> nonce, message |-> None,
              next_message_index |-> g.next_message_index]
        ELSE IF ~IsSome(response)
        THEN [kind |-> "none", error |-> "", nonce |-> nonce, message |-> None,
              next_message_index |-> g.next_message_index]
        ELSE IF ~opened.ok
        THEN [kind |-> "err", error |-> "aead", nonce |-> nonce, message |-> None,
              next_message_index |-> g.next_message_index]
        ELSE [kind |-> "some", error |-> "", nonce |-> nonce,
              message |-> Some([ message |-> opened.cleartext,
                                 block_timestamp_ms |-> Unwrap(response).block_timestamp_ms ]),
              next_message_index |->
                  [g.next_message_index EXCEPT ![correspondent_index] = @ + 1]]

\* what the loop of CombinedMessageStream::next does with the result r of
\* receive_next on the GroupStream of lane k
buffer_received(k, acc, r) ==
    LET polled == [kind |-> r.kind, error |-> r.error, nonce |-> r.nonce,
                   message |-> r.message]
    IN  IF r.kind = "err"
        THEN [acc EXCEPT !.error = TRUE, !.polls[k] = polled,
                         !.next_nonce = r.next_message_index]
        ELSE IF r.kind = "none"
        THEN [acc EXCEPT !.polls[k] = polled, !.next_nonce = r.next_message_index]
        ELSE [acc EXCEPT
                !.polls[k] = polled,
                !.next_nonce = r.next_message_index,
                !.next_message[k] = r.message,
                !.oldest = select_oldest(@, Unwrap(r.message).block_timestamp_ms, k)]

\* one iteration of the loop of CombinedMessageStream::next over the GroupStream
\* of lane k; the result of receive_next is computed once
group_set_oldest_message(k, acc, msgs, down) ==
    IF IsSome(acc.next_message[k])
    THEN [acc EXCEPT
            !.oldest = select_oldest(@, Unwrap(acc.next_message[k]).block_timestamp_ms, k)]
    ELSE CHOOSE after \in
            { buffer_received(k, acc, r) :
                 r \in {receive_next_for(ReaderGroup(acc.next_nonce), k, msgs,
                                         k \notin down)} } : TRUE

\* the loop over the lanes; the state after each iteration is computed once
RECURSIVE GroupNextLoop(_, _, _, _)
GroupNextLoop(k, acc, msgs, down) ==
    IF k \notin LaneIndexes \/ acc.error
    THEN acc
    ELSE CHOOSE result \in
            { GroupNextLoop(k + 1, after, msgs, down) :
                 after \in {group_set_oldest_message(k, acc, msgs, down)} } : TRUE

\* CombinedMessageStream::next of the reader over Group::streams(); down: the
\* lanes whose view call fails
GroupNext(down) ==
    /\ \E acc \in { GroupNextLoop(0,
                      [ oldest |-> None, error |-> FALSE,
                        next_message |-> next_message[GroupReader],
                        next_nonce |-> next_nonce[GroupReader],
                        polls |-> [k \in LaneIndexes |-> NotPolled] ],
                      messages, down) } :
          /\ next_nonce' = [next_nonce EXCEPT ![GroupReader] = acc.next_nonce]
          /\ next_message' =
                [next_message EXCEPT ![GroupReader] =
                    IF ~acc.error /\ IsSome(acc.oldest)
                    THEN [acc.next_message EXCEPT ![Unwrap(acc.oldest).index] = None]
                    ELSE acc.next_message]
          /\ last' = Idle
    /\ UNCHANGED << repo_vars, block_timestamp_ms, conversations, correspondent_map, rest_vars, sealed,
                    published, emitted >>

\* Group::send by member m; the members other than the reader never receive, so
\* their next_message_index is the one Group::new gave them
GroupSend(m, cleartext, rpc) ==
    LET g == IF m = GroupReader THEN ReaderGroup(next_nonce[GroupReader])
             ELSE GroupMember(m)
        nonce == GroupSendNonce(g)
    IN  /\ g.next_message_index[g.send_messages_from_member_index]
              < g.send_messages_from_member_index + MaxLaneDepth
        /\ IF rpc = "unsent"
           THEN UNCHANGED << repo_vars, published >>
           ELSE ApplyPublish(sequence_hash(g, nonce), encrypt(g, nonce, cleartext), TRUE)
        /\ last' = Idle
        /\ UNCHANGED << block_timestamp_ms, conversations, next_nonce, next_message,
                        correspondent_map, rest_vars, sealed, emitted >>

\* a publish call made straight to the contract, to the slot of logical index j
\* of lane k: a message sealed with the key of the group, or a forged one
GroupPublish(k, j, forged) ==
    LET g == NewReaderGroup
        nonce == get_nonce_for_message(g, j, k)
        ciphertext == encrypt(g, nonce, "dm 1")
    IN  /\ ApplyPublish(sequence_hash(g, nonce),
                        IF forged THEN Tamper(ciphertext) ELSE ciphertext, TRUE)
        /\ last' = Idle
        /\ UNCHANGED << block_timestamp_ms, conversations, next_nonce, next_message,
                        correspondent_map, rest_vars, sealed, emitted >>

InitGroup ==
    /\ messages = {}
    /\ current_aggregator = << >>
    /\ aggregator_history = << >>
    /\ block_timestamp_ms = 0
    /\ conversations = [p \in Parties |-> FALSE]
    /\ next_nonce = [p \in {GroupReader} |-> NewReaderGroup.next_message_index]
    /\ next_message = [p \in {GroupReader} |-> [k \in LaneIndexes |-> None]]
    /\ watch = {}
    /\ last = Idle
    /\ sealed = {}
    /\ published = {}
    /\ emitted = [p \in Parties |-> << >>]
    /\ key_map = SyncedKeys
    /\ correspondent_map = NoDirectory
    /\ NoTasks

NextGroup ==
    \/ Tick
    \/ \E m \in GroupIds, rpc \in {"ok", "unsent"} : GroupSend(m, "dm 2", rpc)
    \/ \E k \in LaneIndexes, d \in 0..(MaxLaneDepth - 1), forged \in BOOLEAN :
          GroupPublish(k, k + d, forged)
    \/ \E down \in SUBSET LaneIndexes : GroupNext(down)

\* the view calls of a next() cannot fail for ever
SpecGroup == InitGroup /\ [][NextGroup]_vars /\ WF_vars(GroupNext({}))

\* what the repository holds at the slot of logical index j of lane k
LaneSlot(k, j) ==
    get_message(messages,
                sequence_hash(NewReaderGroup,
                              get_nonce_for_message(NewReaderGroup, j, k)))

\* the slot holds a ciphertext that the key of the group opens
LaneSlotOpens(k, j) ==
    /\ IsSome(LaneSlot(k, j))
    /\ decrypt(NewReaderGroup,
               get_nonce_for_message(NewReaderGroup, j, k),
               Unwrap(LaneSlot(k, j)).message).ok

\* lane k of the reader stands at logical index j and its slot holds a message
LaneHolds(k, j) ==
    /\ next_nonce[GroupReader][k] = j
    /\ next_message[GroupReader][k] = None
    /\ LaneSlotOpens(k, j)

\* the combined stream has emitted the message of logical index j of lane k
LaneEmitted(k, j) ==
    /\ next_nonce[GroupReader][k] > j
    /\ ~(next_nonce[GroupReader][k] = j + 1 /\ IsSome(next_message[GroupReader][k]))

\* the next slot of some lane holds a ciphertext that fails authentication
SomeLaneForged ==
    \E l \in LaneIndexes :
        /\ next_message[GroupReader][l] = None
        /\ IsSome(LaneSlot(l, next_nonce[GroupReader][l]))
        /\ ~LaneSlotOpens(l, next_nonce[GroupReader][l])

\* the logical index of a lane moves only by one, and only when the slot that
\* lane stood at held a message and the lane had no lookahead
OnlyOwnLaneMoves ==
    [][ \A k \in LaneIndexes :
          next_nonce'[GroupReader][k] # next_nonce[GroupReader][k] =>
              /\ next_nonce'[GroupReader][k] = next_nonce[GroupReader][k] + 1
              /\ LaneHolds(k, next_nonce[GroupReader][k]) ]_vars

====
